---- MODULE Spec2Model ----
(***************************************************************************)
(* KubeRoot: failure diagnosis backend.  The model covers the analyzer     *)
(* (rule table and confidence enrichment), the Postgres store (api_keys,   *)
(* clusters, diagnoses; SaveDiagnoses as a transaction), the auth          *)
(* middleware and the HTTP handlers of the two server binaries.            *)
(*                                                                         *)
(* Go strings that the code only compares for equality are TLA+ strings.   *)
(* Go strings the code looks into (ToLower, Contains, TrimSpace) are       *)
(* sequences of one-character strings.                                     *)
(***************************************************************************)
EXTENDS Integers, Sequences, FiniteSets, TLC

VARIABLES
    api_keys,   \* table api_keys: key_hash -> [organization_id, active, last_used_at]
    clusters,   \* table clusters: id -> [organization_id, created_at, updated_at, by]
    diagnoses,  \* table diagnoses: the set of committed rows
    now,        \* the clock (time.Now / NOW())
    tx,         \* the SaveDiagnoses calls in flight, one per connection slot
    saves,      \* log of the SaveDiagnoses calls made: arguments and outcome (running, ok, err)
    server,     \* the server process: what main() built
    req,        \* the HTTP request being served
    an          \* the analyzer call being evaluated

vars == <<api_keys, clusters, diagnoses, now, tx, saves, server, req, an>>

storeVars == <<api_keys, clusters, diagnoses, tx, saves>>

(***************************************************************************)
(* Bounds of the model.                                                    *)
(***************************************************************************)
MaxEvents == 2      \* events per failure record in the analyzer harness
MaxClock == 1       \* clock readings 0..MaxClock
MaxSaves == 2       \* SaveDiagnoses calls per behaviour of the store harness
MaxRequests == 1    \* HTTP requests per behaviour of the server
BigTable == 201     \* rows of the largest diagnoses table of the history harness
MaxRecords == 2     \* failure records per call of DiagnoseFailures in its harness
MaxFetched == 2     \* source events per call of getRecentPodEvents in its harness
MaxContainers == 1  \* regular containers of a pod given to DetectFailures
MaxPods == 2        \* pods the API server lists for GetFailedPods
MaxTicks == 2       \* times the agent's ticker fires

(***************************************************************************)
(* Character strings.                                                      *)
(***************************************************************************)
Upper == <<"A","B","C","D","E","F","G","H","I","J","K","L","M","N","O","P","Q","R","S","T","U","V","W","X","Y","Z">>
Lower == <<"a","b","c","d","e","f","g","h","i","j","k","l","m","n","o","p","q","r","s","t","u","v","w","x","y","z">>

\* unicode.ToLower on one character
LowerChar(c) ==
    IF \E i \in 1..Len(Upper) : Upper[i] = c
    THEN Lower[CHOOSE i \in 1..Len(Upper) : Upper[i] = c]
    ELSE c

\* strings.ToLower
ToLower(s) == [i \in 1..Len(s) |-> LowerChar(s[i])]

\* strings.Contains
Contains(s, sub) ==
    \E k \in 0..(Len(s) - Len(sub)) :
        \A j \in 1..Len(sub) : s[k + j] = sub[j]

IsSpace(c) == c \in {" ", "\t", "\n", "\r"}

RECURSIVE TrimLeft(_)
TrimLeft(s) ==
    IF s # << >> /\ IsSpace(Head(s)) THEN TrimLeft(Tail(s)) ELSE s

RECURSIVE TrimRight(_)
TrimRight(s) ==
    IF s # << >> /\ IsSpace(s[Len(s)]) THEN TrimRight(SubSeq(s, 1, Len(s) - 1)) ELSE s

MutTrimSpace_Identity(s) == s

\* strings.TrimSpace
TrimSpace(s) == TrimRight(TrimLeft(s))

(***************************************************************************)
(* internal/analyzer: rule table and confidence enrichment.                *)
(***************************************************************************)
TierLow == <<"l","o","w">>
TierMedium == <<"m","e","d","i","u","m">>
TierHigh == <<"h","i","g","h">>
Tiers == {TierLow, TierMedium, TierHigh}

KwBackOffRestarting == <<"b","a","c","k","-","o","f","f"," ","r","e","s","t","a","r","t","i","n","g">>
KwCrashLoopBackOff == <<"c","r","a","s","h","l","o","o","p","b","a","c","k","o","f","f">>
KwFailed == <<"f","a","i","l","e","d">>
KwOOMKilled == <<"o","o","m","k","i","l","l","e","d">>
KwOutOfMemory == <<"o","u","t"," ","o","f"," ","m","e","m","o","r","y">>
KwKilling == <<"k","i","l","l","i","n","g">>
KwFailedToPullImage == <<"f","a","i","l","e","d"," ","t","o"," ","p","u","l","l"," ","i","m","a","g","e">>
KwPullAccessDenied == <<"p","u","l","l"," ","a","c","c","e","s","s"," ","d","e","n","i","e","d">>
KwManifestUnknown == <<"m","a","n","i","f","e","s","t"," ","u","n","k","n","o","w","n">>
KwImagePullBackOff == <<"i","m","a","g","e","p","u","l","l","b","a","c","k","o","f","f">>

MutV1Rules_CrashLoopLow == <<
    [FailureType |-> "CrashLoopBackOff",
     LikelyCause |-> "Application crash or configuration error",
     SuggestedFix |-> "Check application logs; verify environment variables; validate ConfigMap/Secret mounts",
     Confidence |-> TierLow],
    [FailureType |-> "OOMKilled",
     LikelyCause |-> "Container exceeded memory limit",
     SuggestedFix |-> "Increase memory limit; inspect memory usage; investigate memory leaks",
     Confidence |-> TierHigh],
    [FailureType |-> "ImagePullBackOff",
     LikelyCause |-> "Image pull failed due to image name, registry access, or credentials",
     SuggestedFix |-> "Verify image name; check registry access; validate pull secret for private registry",
     Confidence |-> TierHigh] >>

v1Rules == <<
    [FailureType |-> "CrashLoopBackOff",
     LikelyCause |-> "Application crash or configuration error",
     SuggestedFix |-> "Check application logs; verify environment variables; validate ConfigMap/Secret mounts",
     Confidence |-> TierMedium],
    [FailureType |-> "OOMKilled",
     LikelyCause |-> "Container exceeded memory limit",
     SuggestedFix |-> "Increase memory limit; inspect memory usage; investigate memory leaks",
     Confidence |-> TierHigh],
    [FailureType |-> "ImagePullBackOff",
     LikelyCause |-> "Image pull failed due to image name, registry access, or credentials",
     SuggestedFix |-> "Verify image name; check registry access; validate pull secret for private registry",
     Confidence |-> TierHigh] >>

maxInt(a, b) == IF a > b THEN a ELSE b

confidenceScore(confidence) ==
    LET l == ToLower(confidence) IN
    IF l = TierHigh THEN 3
    ELSE IF l = TierMedium THEN 2
    ELSE 1

scoreConfidence(score) ==
    IF score >= 3 THEN TierHigh
    ELSE IF score = 2 THEN TierMedium
    ELSE TierLow

\* the body of the switch in enrichConfidence's loop: does this (lowered)
\* event hold a keyword of the failure type
eventMatches(failureType, lowerEvent) ==
    CASE failureType = "CrashLoopBackOff" ->
            \/ Contains(lowerEvent, KwBackOffRestarting)
            \/ Contains(lowerEvent, KwCrashLoopBackOff)
            \/ Contains(lowerEvent, KwFailed)
      [] failureType = "OOMKilled" ->
            \/ Contains(lowerEvent, KwOOMKilled)
            \/ Contains(lowerEvent, KwOutOfMemory)
            \/ Contains(lowerEvent, KwKilling)
      [] failureType = "ImagePullBackOff" ->
            \/ Contains(lowerEvent, KwFailedToPullImage)
            \/ Contains(lowerEvent, KwPullAccessDenied)
            \/ Contains(lowerEvent, KwManifestUnknown)
            \/ Contains(lowerEvent, KwImagePullBackOff)
      [] OTHER -> FALSE

\* one iteration of the loop over events: the new evidenceScore
MutEvidenceStep_Accumulates(evidenceScore, failureType, event) ==
    IF eventMatches(failureType, ToLower(event))
    THEN evidenceScore + 1
    ELSE evidenceScore

evidenceStep(evidenceScore, failureType, event) ==
    IF eventMatches(failureType, ToLower(event))
    THEN maxInt(evidenceScore, 1)
    ELSE evidenceScore

\* the loop over events, from its i-th iteration on
RECURSIVE evidenceLoop(_, _, _, _)
evidenceLoop(evidenceScore, failureType, events, i) ==
    IF i > Len(events) THEN evidenceScore
    ELSE evidenceLoop(evidenceStep(evidenceScore, failureType, events[i]),
                      failureType, events, i + 1)

MutEnrichConfidence_NoPenalty(base, failureType, events) ==
    LET baseScore == confidenceScore(base)
        evidenceScore == evidenceLoop(0, failureType, events, 1)
        finalScore0 == baseScore + evidenceScore
        finalScore == IF finalScore0 > 3 THEN 3 ELSE finalScore0
    IN  scoreConfidence(finalScore)

MutEnrichConfidence_EvidenceLowers(base, failureType, events) ==
    LET baseScore0 == confidenceScore(base)
        evidenceScore == evidenceLoop(0, failureType, events, 1)
        baseScore == IF Len(events) = 0 THEN maxInt(1, baseScore0 - 1) ELSE baseScore0
        finalScore0 == baseScore - evidenceScore
        finalScore == IF finalScore0 > 3 THEN 3 ELSE finalScore0
    IN  scoreConfidence(finalScore)

enrichConfidence(base, failureType, events) ==
    LET baseScore0 == confidenceScore(base)
        evidenceScore == evidenceLoop(0, failureType, events, 1)
        baseScore == IF Len(events) = 0 THEN maxInt(1, baseScore0 - 1) ELSE baseScore0
        finalScore0 == baseScore + evidenceScore
        finalScore == IF finalScore0 > 3 THEN 3 ELSE finalScore0
    IN  scoreConfidence(finalScore)

\* ruleMap[failureType]: the last rule of the table with that type
HasRule(failureType) == \E i \in 1..Len(v1Rules) : v1Rules[i].FailureType = failureType

RuleOf(failureType) ==
    v1Rules[CHOOSE i \in 1..Len(v1Rules) :
                /\ v1Rules[i].FailureType = failureType
                /\ \A j \in (i + 1)..Len(v1Rules) : v1Rules[j].FailureType # failureType]

RECURSIVE MutTypesLoop_StopsAtUnknown(_, _, _, _, _)
MutTypesLoop_StopsAtUnknown(orgID, clusterID, failure, i, t) ==
    IF i > Len(failure.Types) THEN << >>
    ELSE IF ~HasRule(failure.Types[i])
         THEN << >>
         ELSE LET rule == RuleOf(failure.Types[i]) IN
              <<[OrganizationID |-> orgID,
                 ClusterID |-> clusterID,
                 PodName |-> failure.Name,
                 Namespace |-> failure.Namespace,
                 FailureType |-> rule.FailureType,
                 LikelyCause |-> rule.LikelyCause,
                 SuggestedFix |-> rule.SuggestedFix,
                 Confidence |-> enrichConfidence(rule.Confidence, rule.FailureType, failure.Events),
                 Events |-> failure.Events,
                 Timestamp |-> t]>>
              \o MutTypesLoop_StopsAtUnknown(orgID, clusterID, failure, i + 1, t)

\* the inner loop of DiagnoseFailures: the Diagnoses of one failure record,
\* from its i-th type on; t is time.Now().UTC()
RECURSIVE typesLoop(_, _, _, _, _)
typesLoop(orgID, clusterID, failure, i, t) ==
    IF i > Len(failure.Types) THEN << >>
    ELSE IF ~HasRule(failure.Types[i])
         THEN typesLoop(orgID, clusterID, failure, i + 1, t)
         ELSE LET rule == RuleOf(failure.Types[i]) IN
              <<[OrganizationID |-> orgID,
                 ClusterID |-> clusterID,
                 PodName |-> failure.Name,
                 Namespace |-> failure.Namespace,
                 FailureType |-> rule.FailureType,
                 LikelyCause |-> rule.LikelyCause,
                 SuggestedFix |-> rule.SuggestedFix,
                 Confidence |-> enrichConfidence(rule.Confidence, rule.FailureType, failure.Events),
                 Events |-> failure.Events,
                 Timestamp |-> t]>>
              \o typesLoop(orgID, clusterID, failure, i + 1, t)

RECURSIVE MutFailuresLoop_LastRecordFirst(_, _, _, _, _)
MutFailuresLoop_LastRecordFirst(orgID, clusterID, failures, i, t) ==
    IF i > Len(failures) THEN << >>
    ELSE MutFailuresLoop_LastRecordFirst(orgID, clusterID, failures, i + 1, t)
         \o typesLoop(orgID, clusterID, failures[i], 1, t)

\* the outer loop, from the i-th failure record on
RECURSIVE failuresLoop(_, _, _, _, _)
failuresLoop(orgID, clusterID, failures, i, t) ==
    IF i > Len(failures) THEN << >>
    ELSE typesLoop(orgID, clusterID, failures[i], 1, t)
         \o failuresLoop(orgID, clusterID, failures, i + 1, t)

DiagnoseFailures(orgID, clusterID, failures, t) ==
    failuresLoop(orgID, clusterID, failures, 1, t)

(***************************************************************************)
(* Analyzer harness: one call of enrichConfidence on drawn inputs.         *)
(***************************************************************************)
EvCreated == <<"C","r","e","a","t","e","d",":"," ","o","k">>
EvBackOff == <<"B","a","c","k","O","f","f",":"," ","B","a","c","k","-","o","f","f"," ","r","e","s","t","a","r","t","i","n","g"," ","f","a","i","l","e","d"," ","c","o","n","t","a","i","n","e","r">>
EvKilling == <<"K","i","l","l","i","n","g",":"," ","O","O","M">>
EvPullDenied == <<"P","u","l","l"," ","A","c","c","e","s","s"," ","D","e","n","i","e","d">>
EvFAILED == <<"F","A","I","L","E","D">>
EvOutOfMemory == <<"O","u","t"," ","O","f"," ","M","e","m","o","r","y">>
EvEmpty == << >>
EventTexts == {EvCreated, EvBackOff, EvKilling, EvPullDenied, EvFAILED, EvOutOfMemory, EvEmpty}

FailureTypes == {"CrashLoopBackOff", "OOMKilled", "ImagePullBackOff", "FailedScheduling"}

SeqsUpTo(S, n) == UNION {[1..k -> S] : k \in 0..n}

AnIdle == [pc |-> "idle"]

AnInit ==
    \E base \in Tiers, failureType \in FailureTypes, events \in SeqsUpTo(EventTexts, MaxEvents) :
        an = [pc |-> "call", base |-> base, failureType |-> failureType, events |-> events]

CallEnrichConfidence ==
    /\ an.pc = "call"
    /\ an' = [pc |-> "ret", base |-> an.base, failureType |-> an.failureType,
              events |-> an.events,
              out |-> enrichConfidence(an.base, an.failureType, an.events)]
    /\ UNCHANGED <<api_keys, clusters, diagnoses, now, tx, saves, server, req>>

(***************************************************************************)
(* internal/store: the Postgres tables and the three store operations.     *)
(***************************************************************************)
Orgs == {"orgA", "orgB"}
ClusterIDs == {"c1", "c2"}
Slots == {"s1", "s2"}

\* a *time.Time: << >> is nil, <<t>> points to t
NilTime == << >>

\* json.Marshal / json.Unmarshal of the events column
MarshalEvents(events) == [jsonb |-> events]
UnmarshalEvents(eventsJSON) == eventsJSON.jsonb

TxIdle == [pc |-> "idle"]

MutDiagnosisRow_TenantOfValue(call, i, organizationID, clusterID, diagnosis) ==
    [id |-> <<call, i>>,
     organization_id |-> diagnosis.OrganizationID,
     cluster_id |-> diagnosis.ClusterID,
     pod_name |-> diagnosis.PodName,
     namespace |-> diagnosis.Namespace,
     failure_type |-> diagnosis.FailureType,
     likely_cause |-> diagnosis.LikelyCause,
     suggested_fix |-> diagnosis.SuggestedFix,
     confidence |-> diagnosis.Confidence,
     events |-> MarshalEvents(diagnosis.Events),
     created_at |-> diagnosis.Timestamp]

\* the diagnoses row that stmt.ExecContext inserts for diagnosis number i of
\* the batch of call number call; id stands for the BIGSERIAL identity
DiagnosisRow(call, i, organizationID, clusterID, diagnosis) ==
    [id |-> <<call, i>>,
     organization_id |-> organizationID,
     cluster_id |-> clusterID,
     pod_name |-> diagnosis.PodName,
     namespace |-> diagnosis.Namespace,
     failure_type |-> diagnosis.FailureType,
     likely_cause |-> diagnosis.LikelyCause,
     suggested_fix |-> diagnosis.SuggestedFix,
     confidence |-> diagnosis.Confidence,
     events |-> MarshalEvents(diagnosis.Events),
     created_at |-> diagnosis.Timestamp]

\* rows.Scan and json.Unmarshal: the Diagnosis read back from a row
ScanDiagnosis(row) ==
    [OrganizationID |-> row.organization_id,
     ClusterID |-> row.cluster_id,
     PodName |-> row.pod_name,
     Namespace |-> row.namespace,
     FailureType |-> row.failure_type,
     LikelyCause |-> row.likely_cause,
     SuggestedFix |-> row.suggested_fix,
     Confidence |-> row.confidence,
     Events |-> UnmarshalEvents(row.events),
     Timestamp |-> row.created_at]

\* ---- SaveDiagnoses, one database round trip per step ----

\* s.db.BeginTx: a new call; ok = FALSE is BeginTx returning an error.
\* The log entry records the calls that are open when this one begins.
\* NOW() inside the transaction is its start time.
BeginTx(s, organizationID, clusterID, batch, ok) ==
    /\ tx[s].pc = "idle"
    /\ saves' = Append(saves, [org |-> organizationID, cluster |-> clusterID,
                               batch |-> batch,
                               during |-> {tx[o].call : o \in {x \in Slots : tx[x].pc # "idle"}},
                               outcome |-> IF ok THEN "running" ELSE "err"])
    /\ tx' = IF ok
             THEN [tx EXCEPT ![s] = [pc |-> "upsert", call |-> Len(saves) + 1,
                                     org |-> organizationID, cluster |-> clusterID,
                                     batch |-> batch, began |-> now,
                                     upserted |-> FALSE, rows |-> << >>]]
             ELSE tx

\* INSERT INTO clusters ... ON CONFLICT (id) DO UPDATE: waits while another
\* open transaction holds an uncommitted write of the same cluster id
UpsertNext(batch) == IF Len(batch) = 0 THEN "commit" ELSE "prepare"

TxUpsertCluster(s) ==
    /\ tx[s].pc = "upsert"
    /\ \A o \in Slots \ {s} :
          ~(tx[o].pc # "idle" /\ tx[o].upserted /\ tx[o].cluster = tx[s].cluster)
    /\ tx' = [tx EXCEPT ![s].upserted = TRUE, ![s].pc = UpsertNext(tx[s].batch)]
    /\ UNCHANGED <<api_keys, clusters, diagnoses, saves, now, server, req, an>>

\* tx.PrepareContext
TxPrepare(s) ==
    /\ tx[s].pc = "prepare"
    /\ tx' = [tx EXCEPT ![s].pc = "insert"]
    /\ UNCHANGED <<api_keys, clusters, diagnoses, saves, now, server, req, an>>

\* one iteration of the loop over the batch: json.Marshal and stmt.ExecContext
TxInsertDiagnosis(s) ==
    /\ tx[s].pc = "insert"
    /\ LET t == tx[s]
           i == Len(t.rows) + 1
           row == DiagnosisRow(t.call, i, t.org, t.cluster, t.batch[i])
       IN  tx' = [tx EXCEPT ![s].rows = Append(t.rows, row),
                            ![s].pc = IF i = Len(t.batch) THEN "commit" ELSE "insert"]
    /\ UNCHANGED <<api_keys, clusters, diagnoses, saves, now, server, req, an>>

MutUpsertedClusters_KeepsOwner(t) ==
    [c \in DOMAIN clusters \cup {t.cluster} |->
        IF c \in DOMAIN clusters
        THEN clusters[c]
        ELSE [organization_id |-> t.org, created_at |-> t.began,
              updated_at |-> t.began, by |-> t.call]]

\* the clusters table after the transaction's upsert is applied
UpsertedClusters(t) ==
    [c \in DOMAIN clusters \cup {t.cluster} |->
        IF c = t.cluster
        THEN [organization_id |-> t.org,
              created_at |-> IF c \in DOMAIN clusters
                             THEN clusters[c].created_at ELSE t.began,
              updated_at |-> t.began,
              by |-> t.call]
        ELSE clusters[c]]

MutWritesOf_SkipsDuplicates(t) ==
    [clusters |-> UpsertedClusters(t),
     diagnoses |-> diagnoses \cup
        {t.rows[i] : i \in {j \in 1..Len(t.rows) :
            \A r \in diagnoses :
                [x \in DOMAIN r \ {"id"} |-> r[x]] #
                [x \in DOMAIN r \ {"id"} |-> t.rows[j][x]]}}]

MutWritesOf_RebindMovesRows(t) ==
    [clusters |-> UpsertedClusters(t),
     diagnoses |-> {IF r.cluster_id = t.cluster
                    THEN [r EXCEPT !.organization_id = t.org] ELSE r : r \in diagnoses}
                   \cup {t.rows[i] : i \in 1..Len(t.rows)}]

MutWritesOf_EmptyBatchSkipsCluster(t) ==
    [clusters |-> IF t.rows = << >> THEN clusters ELSE UpsertedClusters(t),
     diagnoses |-> diagnoses \cup {t.rows[i] : i \in 1..Len(t.rows)}]

\* what the transaction has written once all its statements ran
WritesOf(t) ==
    [clusters |-> UpsertedClusters(t),
     diagnoses |-> diagnoses \cup {t.rows[i] : i \in 1..Len(t.rows)}]

MutTxCommit_LosesConcurrentRows(s) ==
    /\ tx[s].pc = "commit"
    /\ clusters' = WritesOf(tx[s]).clusters
    /\ diagnoses' = {r \in WritesOf(tx[s]).diagnoses :
                        r.cluster_id = tx[s].cluster => r.id[1] = tx[s].call}
    /\ saves' = [saves EXCEPT ![tx[s].call].outcome = "ok"]
    /\ tx' = [tx EXCEPT ![s] = TxIdle]
    /\ UNCHANGED <<api_keys, now, server, req, an>>

\* tx.Commit returning nil: the upsert and the inserts become visible together
TxCommit(s) ==
    /\ tx[s].pc = "commit"
    /\ clusters' = WritesOf(tx[s]).clusters
    /\ diagnoses' = WritesOf(tx[s]).diagnoses
    /\ saves' = [saves EXCEPT ![tx[s].call].outcome = "ok"]
    /\ tx' = [tx EXCEPT ![s] = TxIdle]
    /\ UNCHANGED <<api_keys, now, server, req, an>>

\* what the deferred tx.Rollback leaves in the tables: nothing of t
MutRolledBack_KeepsWrites(t) ==
    [clusters |-> IF t.upserted THEN UpsertedClusters(t) ELSE clusters,
     diagnoses |-> diagnoses \cup {t.rows[i] : i \in 1..Len(t.rows)}]

RolledBack(t) == [clusters |-> clusters, diagnoses |-> diagnoses]

\* any round trip of the open transaction returns an error (a database error,
\* or ctx cancelled or past its deadline): SaveDiagnoses returns it and the
\* deferred tx.Rollback runs
TxFail(s) ==
    /\ tx[s].pc \in {"upsert", "prepare", "insert", "commit"}
    /\ clusters' = RolledBack(tx[s]).clusters
    /\ diagnoses' = RolledBack(tx[s]).diagnoses
    /\ saves' = [saves EXCEPT ![tx[s].call].outcome = "err"]
    /\ tx' = [tx EXCEPT ![s] = TxIdle]
    /\ UNCHANGED <<api_keys, now, server, req, an>>

\* ---- ListDiagnoses ----

MutEffectiveLimit_NoDefault(filter) == IF filter.Limit <= 0 THEN 1000 ELSE filter.Limit

EffectiveLimit(filter) == IF filter.Limit <= 0 THEN 50 ELSE filter.Limit

\* the WHERE clause built from the arguments
MutMatchesQuery_NoTenant(row, organizationID, clusterID, filter) ==
    /\ row.cluster_id = clusterID
    /\ (filter.FailureType # "" => row.failure_type = filter.FailureType)
    /\ (filter.Namespace # "" => row.namespace = filter.Namespace)
    /\ (filter.Since # NilTime => row.created_at >= filter.Since[1])
    /\ (filter.Until # NilTime => row.created_at <= filter.Until[1])

MutMatchesQuery_UntilExclusive(row, organizationID, clusterID, filter) ==
    /\ row.organization_id = organizationID
    /\ row.cluster_id = clusterID
    /\ (filter.FailureType # "" => row.failure_type = filter.FailureType)
    /\ (filter.Namespace # "" => row.namespace = filter.Namespace)
    /\ (filter.Since # NilTime => row.created_at >= filter.Since[1])
    /\ (filter.Until # NilTime => row.created_at < filter.Until[1])

MatchesQuery(row, organizationID, clusterID, filter) ==
    /\ row.organization_id = organizationID
    /\ row.cluster_id = clusterID
    /\ (filter.FailureType # "" => row.failure_type = filter.FailureType)
    /\ (filter.Namespace # "" => row.namespace = filter.Namespace)
    /\ (filter.Since # NilTime => row.created_at >= filter.Since[1])
    /\ (filter.Until # NilTime => row.created_at <= filter.Until[1])

\* ORDER BY created_at DESC: every order of the rows the sort allows (rows of
\* equal created_at come in any order).  The rows are split at the middle of
\* their range of created_at: the newer half comes before the older half.
RECURSIVE OrderedDesc(_)
OrderedDesc(rows) ==
    IF rows = {} THEN {<< >>}
    ELSE LET stamps == {r.created_at : r \in rows}
             newest == CHOOSE t \in stamps : \A u \in stamps : t >= u
             oldest == CHOOSE t \in stamps : \A u \in stamps : t <= u
             middle == (newest + oldest) \div 2
         IN  IF newest = oldest
             THEN UNION {{<<r>> \o rest : rest \in OrderedDesc(rows \ {r})} : r \in rows}
             ELSE {a \o b : a \in OrderedDesc({r \in rows : r.created_at > middle}),
                            b \in OrderedDesc({r \in rows : r.created_at <= middle})}

FirstN(seq, n) == IF Len(seq) <= n THEN seq ELSE SubSeq(seq, 1, n)

\* the results the query can return: LIMIT applied to each order, each row scanned
ListDiagnoses(organizationID, clusterID, filter) ==
    LET matching == {r \in diagnoses : MatchesQuery(r, organizationID, clusterID, filter)}
    IN  {[i \in 1..Len(q) |-> ScanDiagnosis(q[i])] :
            q \in {FirstN(o, EffectiveLimit(filter)) : o \in OrderedDesc(matching)}}

(***************************************************************************)
(* The clock.                                                              *)
(***************************************************************************)
Tick ==
    /\ now < MaxClock
    /\ now' = now + 1
    /\ UNCHANGED <<api_keys, clusters, diagnoses, tx, saves, server, req, an>>

(***************************************************************************)
(* Store harness: callers of the store on two connections.                 *)
(***************************************************************************)
SampleA(t) ==
    [OrganizationID |-> "orgA", ClusterID |-> "c1", PodName |-> "web", Namespace |-> "prod",
     FailureType |-> v1Rules[2].FailureType, LikelyCause |-> v1Rules[2].LikelyCause,
     SuggestedFix |-> v1Rules[2].SuggestedFix, Confidence |-> TierHigh,
     Events |-> <<EvKilling>>, Timestamp |-> t]

SampleB(t) ==
    [OrganizationID |-> "orgB", ClusterID |-> "c1", PodName |-> "api", Namespace |-> "dev",
     FailureType |-> v1Rules[1].FailureType, LikelyCause |-> v1Rules[1].LikelyCause,
     SuggestedFix |-> v1Rules[1].SuggestedFix, Confidence |-> TierLow,
     Events |-> << >>, Timestamp |-> t]

Batches(t) == {<< >>, <<SampleA(t), SampleB(t)>>}

NoFilter == [Limit |-> 0, FailureType |-> "", Namespace |-> "", Since |-> NilTime, Until |-> NilTime]

Filters ==
    {NoFilter,
     [NoFilter EXCEPT !.Limit = 1],
     [NoFilter EXCEPT !.FailureType = "OOMKilled", !.Since = <<0>>],
     [NoFilter EXCEPT !.Namespace = "dev", !.Until = <<0>>]}

\* a caller invokes SaveDiagnoses on the first idle connection
StoreSave(s, organizationID, clusterID, batch, ok) ==
    /\ Len(saves) < MaxSaves
    /\ \A o \in Slots \ {s} : tx[o].pc = "idle" => s = "s1"
    /\ BeginTx(s, organizationID, clusterID, batch, ok)
    /\ UNCHANGED <<api_keys, clusters, diagnoses, now, server, req, an>>

\* the credentials the operator has registered (keygen's INSERT INTO api_keys)
hashAPIKey(key) == <<"sha256">> \o key

KeyA == <<"k","r","_","a">>
KeyB == <<"k","r","_","b">>
KeyX == <<"k","r","_","x">>

InitialAPIKeys ==
    [h \in {hashAPIKey(KeyA), hashAPIKey(KeyB)} |->
        [organization_id |-> IF h = hashAPIKey(KeyA) THEN "orgA" ELSE "orgB",
         active |-> TRUE, last_used_at |-> NilTime]]

ServerIdle == [pc |-> "off"]
ReqIdle == [pc |-> "idle"]

StoreInit ==
    /\ api_keys = InitialAPIKeys
    /\ clusters = << >>
    /\ diagnoses = {}
    /\ now = 0
    /\ tx = [s \in Slots |-> TxIdle]
    /\ saves = << >>

InitStore ==
    /\ StoreInit
    /\ server = ServerIdle
    /\ req = ReqIdle
    /\ an = AnIdle

NextStore ==
    \/ \E s \in Slots, o \in Orgs, c \in ClusterIDs, ok \in BOOLEAN :
          \E b \in Batches(now) : StoreSave(s, o, c, b, ok)
    \/ \E s \in Slots : TxUpsertCluster(s)
    \/ \E s \in Slots : TxPrepare(s)
    \/ \E s \in Slots : TxInsertDiagnosis(s)
    \/ \E s \in Slots : TxCommit(s)
    \/ \E s \in Slots : TxFail(s)

SpecStore == InitStore /\ [][NextStore]_vars

(***************************************************************************)
(* Claims about the store (SpecStore).                                     *)
(***************************************************************************)
\* the SaveDiagnoses call that inserted a row
CallOf(row) == saves[row.id[1]]

\* C1: whatever batches the tenants have persisted, and whatever is still in
\* flight, every Diagnosis that ListDiagnoses(A, C, filter) can return is read
\* from a row committed by a SaveDiagnoses call made for tenant A and cluster C,
\* also when another tenant has persisted under the same cluster id.
C1_ListOnlyOwnTenantAndCluster ==
    \A a \in Orgs, c \in ClusterIDs, f \in Filters :
        \A out \in ListDiagnoses(a, c, f) :
            \A i \in 1..Len(out) :
                \E r \in diagnoses :
                    /\ ScanDiagnosis(r) = out[i]
                    /\ CallOf(r).outcome = "ok"
                    /\ CallOf(r).org = a
                    /\ CallOf(r).cluster = c

\* two tenants have committed rows under the same cluster id and a listing of
\* one of them returns rows
C1_Witness ==
    \E r1 \in diagnoses, r2 \in diagnoses :
        /\ CallOf(r1).org = "orgA" /\ CallOf(r2).org = "orgB"
        /\ CallOf(r1).cluster = "c1" /\ CallOf(r2).cluster = "c1"
        /\ \E out \in ListDiagnoses("orgA", "c1", NoFilter) : Len(out) > 0

\* the committed rows and the committed cluster row written by call k
VisibleRows(k) == {r \in diagnoses : r.id[1] = k}
VisibleUpsert(k) == \E c \in DOMAIN clusters : clusters[c].by = k

\* C2: SaveDiagnoses is all-or-nothing.  While a call is running, and after it
\* returned an error (a failed begin, upsert, prepare, insert or commit, or a
\* cancelled context), no row of its batch and no cluster upsert of it is in
\* the committed tables any read sees; once it returned nil, every row of its
\* batch is committed and the cluster row exists, written by a successful call
\* for that cluster.
C2_SaveAllOrNothing ==
    \A k \in 1..Len(saves) :
        /\ saves[k].outcome \in {"running", "err"} =>
              /\ VisibleRows(k) = {}
              /\ ~VisibleUpsert(k)
        /\ saves[k].outcome = "ok" =>
              /\ {r.id[2] : r \in VisibleRows(k)} = 1..Len(saves[k].batch)
              /\ \A r \in VisibleRows(k) :
                    ScanDiagnosis(r) =
                        [saves[k].batch[r.id[2]] EXCEPT !.OrganizationID = saves[k].org,
                                                        !.ClusterID = saves[k].cluster]
              /\ saves[k].cluster \in DOMAIN clusters
              /\ saves[clusters[saves[k].cluster].by].outcome = "ok"
              /\ saves[clusters[saves[k].cluster].by].cluster = saves[k].cluster

\* a call with a two-row batch returned an error and another call committed a
\* two-row batch for the same cluster
C2_Witness ==
    \E k1 \in 1..Len(saves), k2 \in 1..Len(saves) :
        /\ saves[k1].outcome = "err" /\ Len(saves[k1].batch) = 2
        /\ saves[k2].outcome = "ok" /\ Len(saves[k2].batch) = 2
        /\ saves[k1].cluster = saves[k2].cluster

(***************************************************************************)
(* Claims about the analyzer (SpecEnrich).                                 *)
(***************************************************************************)
InitEnrich ==
    /\ StoreInit
    /\ server = ServerIdle
    /\ req = ReqIdle
    /\ AnInit

NextEnrich == CallEnrichConfidence

SpecEnrich == InitEnrich /\ [][NextEnrich]_vars

\* the keywords of a failure type
KeywordsOf(failureType) ==
    CASE failureType = "CrashLoopBackOff" ->
            {KwBackOffRestarting, KwCrashLoopBackOff, KwFailed}
      [] failureType = "OOMKilled" ->
            {KwOOMKilled, KwOutOfMemory, KwKilling}
      [] failureType = "ImagePullBackOff" ->
            {KwFailedToPullImage, KwPullAccessDenied, KwManifestUnknown, KwImagePullBackOff}
      [] OTHER -> {}

\* text holds keyword at some position, letter case ignored
HoldsIgnoringCase(text, keyword) ==
    \E k \in 0..(Len(text) - Len(keyword)) :
        \A j \in 1..Len(keyword) : LowerChar(text[k + j]) = LowerChar(keyword[j])

RefTierScore(tier) ==
    CASE tier = TierLow -> 1 [] tier = TierMedium -> 2 [] tier = TierHigh -> 3

\* the reference computation of the enriched confidence
RefEnrich(base, failureType, events) ==
    LET s1 == RefTierScore(base)
        s2 == IF events = << >> THEN (IF s1 - 1 < 1 THEN 1 ELSE s1 - 1) ELSE s1
        evidence == \E i \in 1..Len(events) :
                        \E kw \in KeywordsOf(failureType) : HoldsIgnoringCase(events[i], kw)
        s3 == IF evidence THEN s2 + 1 ELSE s2
        s4 == IF s3 > 3 THEN 3 ELSE s3
    IN  CASE s4 = 3 -> TierHigh [] s4 = 2 -> TierMedium [] OTHER -> TierLow

\* C3: for every base tier, failure type and event list, enrichConfidence
\* returns what the reference computation gives: low=1, medium=2, high=3; minus
\* one, not below 1, when there are no events; plus one, once, when some event
\* holds a keyword of the failure type whatever its letter case; at most 3;
\* 3 is high, 2 is medium, anything else low.
C3_EnrichMatchesReference ==
    an.pc = "ret" => an.out = RefEnrich(an.base, an.failureType, an.events)

\* a call with two events that both hold a keyword, on a base of low: the
\* evidence counts once and the result is medium
C3_Witness ==
    /\ an.pc = "ret"
    /\ an.base = TierLow
    /\ an.failureType = "CrashLoopBackOff"
    /\ an.events = <<EvBackOff, EvFAILED>>
    /\ an.out = TierMedium

(***************************************************************************)
(* The server: main() of the two binaries, the middleware stack, the       *)
(* handlers.  One request is served at a time; its SaveDiagnoses runs on   *)
(* connection s1.                                                          *)
(***************************************************************************)
\* httpHandler = mw(httpHandler): the chain, outermost first
Wrap(mw, chain) == <<mw>> \o chain

\* cmd/server/main.go: DATABASE_URL is required, the store is Postgres, the
\* stack is built around the mux and APIKeyMiddleware is applied last
SaasChain ==
    Wrap("APIKeyMiddleware",
      Wrap("timeoutMiddleware",
        Wrap("bodySizeLimitMiddleware",
          Wrap("corsMiddleware",
            Wrap("loggingMiddleware",
              Wrap("panicRecoveryMiddleware", <<"mux">>))))))

ServerMain(databaseURL, pgOK, envClusterID) ==
    /\ server.pc = "off"
    /\ server' = IF databaseURL = "" \/ ~pgOK
                 THEN [pc |-> "fatal"]
                 ELSE [pc |-> "up", binary |-> "saas", store |-> "postgres",
                       clusterID |-> IF envClusterID = "" THEN "saas-backend" ELSE envClusterID,
                       chain |-> SaasChain, served |-> 0]
    /\ UNCHANGED <<api_keys, clusters, diagnoses, now, tx, saves, req, an>>

\* the other server binary (with cluster access): the no-op store unless
\* DATABASE_URL is set; the auth middleware is chosen by the store's type
MutLegacyAuth_AlwaysLocal(store) == "LocalModeMiddleware"

LegacyAuth(store) ==
    IF store = "postgres" THEN "APIKeyMiddleware" ELSE "LocalModeMiddleware"

LegacyMain(csOK, databaseURL, pgOK, envClusterID) ==
    /\ server.pc = "off"
    /\ server' = IF ~csOK \/ (databaseURL # "" /\ ~pgOK)
                 THEN [pc |-> "fatal"]
                 ELSE LET store == IF databaseURL # "" THEN "postgres" ELSE "noop" IN
                      [pc |-> "up", binary |-> "legacy", store |-> store,
                       clusterID |-> IF envClusterID = "" THEN "local" ELSE envClusterID,
                       chain |-> Wrap(LegacyAuth(store), <<"mux">>), served |-> 0]
    /\ UNCHANGED <<api_keys, clusters, diagnoses, now, tx, saves, req, an>>

\* ---- requests ----
Methods == {"GET", "POST", "OPTIONS"}
PathHealth == "/health"
PathHistory == "/diagnose/history"
PathReport == "/api/v1/agent/report"
Paths == {PathHealth, PathHistory, PathReport}

\* values of the X-API-Key header; an absent header reads as the empty string
HdrAbsent == << >>
HdrBlank == <<" ", " ">>
HdrPaddedB == <<" ">> \o KeyB \o <<" ">>
Headers == {HdrAbsent, HdrBlank, KeyA, HdrPaddedB, KeyX}

NoPayload == [kind |-> "none"]
BodyMalformed == [kind |-> "malformed"]

FailuresSample ==
    <<[Namespace |-> "prod", Name |-> "web", Types |-> <<"OOMKilled", "FailedScheduling">>,
       Events |-> <<EvKilling>>],
      [Namespace |-> "dev", Name |-> "api", Types |-> <<"CrashLoopBackOff">>,
       Events |-> << >>]>>

\* a timestamp a client puts in its payload, apart from every clock reading
ClientStamp == MaxClock + 7

\* AgentPayload bodies
Bodies ==
    {BodyMalformed,
     [kind |-> "json", clusterId |-> "", timestamp |-> 0, failures |-> FailuresSample],
     [kind |-> "json", clusterId |-> "c1", timestamp |-> 0, failures |-> FailuresSample],
     [kind |-> "json", clusterId |-> "c1", timestamp |-> ClientStamp, failures |-> FailuresSample],
     [kind |-> "json", clusterId |-> "c1", timestamp |-> 0, failures |-> << >>],
     [kind |-> "json", clusterId |-> "c1", timestamp |-> 0,
      failures |-> <<[Namespace |-> "dev", Name |-> "job", Types |-> <<"FailedScheduling">>,
                      Events |-> << >>]>>]}

\* query strings of the history endpoint (raw, as received)
Queries ==
    {[kind |-> "query", cluster |-> "c1", limit |-> "", failureType |-> << >>,
      namespace |-> <<" ", "p", "r", "o", "d">>, since |-> << >>, until |-> << >>],
     [kind |-> "query", cluster |-> "", limit |-> "0", failureType |-> << >>,
      namespace |-> << >>, since |-> << >>, until |-> << >>]}

\* what a client sends along: a body with a POST of a report, a query with a
\* GET of the history, nothing otherwise
PayloadsFor(method, path) ==
    CASE method = "POST" /\ path = PathReport -> Bodies
      [] method = "GET" /\ path = PathHistory -> Queries
      [] OTHER -> {NoPayload}

\* a request enters the outermost layer of the chain.  ops lists the Store
\* operations called for it; bounded tells of each whether the context it
\* was called with carried a deadline (the handlers call the store with the
\* context of context.WithTimeout(r.Context(), 15*time.Second))
Arrive(method, path, key, payload) ==
    /\ server.pc = "up"
    /\ server.served < MaxRequests
    /\ req.pc \in {"idle", "done"}
    /\ payload \in PayloadsFor(method, path)
    /\ req' = [pc |-> "mw", layer |-> 1, method |-> method, path |-> path,
               key |-> key, payload |-> payload,
               ctxOrg |-> "", deadline |-> FALSE, validate |-> << >>, ops |-> << >>,
               bounded |-> << >>,
               handler |-> "", diagAt |-> NilTime, batch |-> << >>, panicAt |-> "",
               call |-> 0, status |-> 0, body |-> "",
               pre |-> [clusters |-> clusters, diagnoses |-> diagnoses, nsaves |-> Len(saves)]]
    /\ server' = [server EXCEPT !.served = server.served + 1]
    /\ UNCHANGED <<api_keys, clusters, diagnoses, now, tx, saves, an>>

AtLayer(mw) == req.pc = "mw" /\ server.chain[req.layer] = mw

\* http.Error / WriteHeader + body: the response is written and the request ends
Respond(r, status, body) == [r EXCEPT !.pc = "done", !.status = status, !.body = body]

\* next.ServeHTTP
Descend(r) == [r EXCEPT !.layer = r.layer + 1]

\* ---- PostgresStore.ValidateAPIKey ----
\* UPDATE api_keys SET last_used_at = NOW() WHERE key_hash = $1 AND active = true
\* RETURNING organization_id; fault is a connection or transport error
MutKeyMatches_IgnoresActive(keyHash) == keyHash \in DOMAIN api_keys

KeyMatches(keyHash) == keyHash \in DOMAIN api_keys /\ api_keys[keyHash].active

MutValidateAPIKey_NoRefresh(keyHash, fault) ==
    IF fault
    THEN [org |-> "", err |-> "validate API key", keys |-> api_keys]
    ELSE IF ~KeyMatches(keyHash)
         THEN [org |-> "", err |-> "invalid or inactive API key", keys |-> api_keys]
         ELSE [org |-> api_keys[keyHash].organization_id, err |-> "", keys |-> api_keys]

ValidateAPIKey(keyHash, fault) ==
    IF fault
    THEN [org |-> "", err |-> "validate API key", keys |-> api_keys]
    ELSE IF ~KeyMatches(keyHash)
         THEN [org |-> "", err |-> "invalid or inactive API key", keys |-> api_keys]
         ELSE [org |-> api_keys[keyHash].organization_id, err |-> "",
               keys |-> [api_keys EXCEPT ![keyHash].last_used_at = <<now>>]]

MutAPIKeyMiddleware_ContinuesOnError(r, fault) ==
    LET apiKey == TrimSpace(r.key) IN
    IF apiKey = << >>
    THEN [req |-> Respond(r, 401, "missing X-API-Key header"), keys |-> api_keys]
    ELSE LET keyHash == hashAPIKey(apiKey)
             v == ValidateAPIKey(keyHash, fault)
             called == [r EXCEPT !.ops = Append(r.ops, "ValidateAPIKey"),
                                 !.bounded = Append(r.bounded, r.deadline),
                                 !.validate = <<[hash |-> keyHash, org |-> v.org, err |-> v.err]>>]
         IN  [req |-> Descend([called EXCEPT !.ctxOrg = v.org]), keys |-> v.keys]

\* ---- auth.APIKeyMiddleware ----
MutAPIKeyMiddleware_RetriesOnError(r, fault) ==
    LET apiKey == TrimSpace(r.key) IN
    IF apiKey = << >>
    THEN [req |-> Respond(r, 401, "missing X-API-Key header"), keys |-> api_keys]
    ELSE LET keyHash == hashAPIKey(apiKey)
             v == ValidateAPIKey(keyHash, fault)
             called == [r EXCEPT !.ops = Append(r.ops, "ValidateAPIKey"),
                                 !.bounded = Append(r.bounded, r.deadline),
                                 !.validate = <<[hash |-> keyHash, org |-> v.org, err |-> v.err]>>]
             again == [called EXCEPT !.ops = Append(called.ops, "ValidateAPIKey"),
                                     !.bounded = Append(called.bounded, r.deadline)]
         IN  IF v.err # ""
             THEN [req |-> Respond(again, 401, "invalid API key"), keys |-> v.keys]
             ELSE [req |-> Descend([called EXCEPT !.ctxOrg = v.org]), keys |-> v.keys]

\* what the middleware does with a request r: the request afterwards and the
\* api_keys table afterwards
APIKeyMiddleware(r, fault) ==
    LET apiKey == TrimSpace(r.key) IN
    IF apiKey = << >>
    THEN [req |-> Respond(r, 401, "missing X-API-Key header"), keys |-> api_keys]
    ELSE LET keyHash == hashAPIKey(apiKey)
             v == ValidateAPIKey(keyHash, fault)
             called == [r EXCEPT !.ops = Append(r.ops, "ValidateAPIKey"),
                                 !.bounded = Append(r.bounded, r.deadline),
                                 !.validate = <<[hash |-> keyHash, org |-> v.org, err |-> v.err]>>]
         IN  IF v.err # ""
             THEN [req |-> Respond(called, 401, "invalid API key"), keys |-> v.keys]
             ELSE [req |-> Descend([called EXCEPT !.ctxOrg = v.org]), keys |-> v.keys]

APIKeyStep(fault) ==
    /\ AtLayer("APIKeyMiddleware")
    /\ req' = APIKeyMiddleware(req, fault).req
    /\ api_keys' = APIKeyMiddleware(req, fault).keys
    /\ UNCHANGED <<clusters, diagnoses, now, tx, saves, server, an>>

\* ---- auth.LocalModeMiddleware ----
LocalModeStep ==
    /\ AtLayer("LocalModeMiddleware")
    /\ req' = Descend([req EXCEPT !.ctxOrg = "local-org"])
    /\ UNCHANGED <<api_keys, clusters, diagnoses, now, tx, saves, server, an>>

\* ---- the other middlewares of cmd/server/main.go ----
TimeoutStep ==
    /\ AtLayer("timeoutMiddleware")
    /\ req' = Descend([req EXCEPT !.deadline = TRUE])
    /\ UNCHANGED <<api_keys, clusters, diagnoses, now, tx, saves, server, an>>

BodySizeLimitStep ==
    /\ AtLayer("bodySizeLimitMiddleware")
    /\ req' = Descend(req)
    /\ UNCHANGED <<api_keys, clusters, diagnoses, now, tx, saves, server, an>>

CorsStep ==
    /\ AtLayer("corsMiddleware")
    /\ req' = IF req.method = "OPTIONS" THEN Respond(req, 200, "") ELSE Descend(req)
    /\ UNCHANGED <<api_keys, clusters, diagnoses, now, tx, saves, server, an>>

LoggingStep ==
    /\ AtLayer("loggingMiddleware")
    /\ req' = Descend(req)
    /\ UNCHANGED <<api_keys, clusters, diagnoses, now, tx, saves, server, an>>

PanicRecoveryStep ==
    /\ AtLayer("panicRecoveryMiddleware")
    /\ req' = Descend(req)
    /\ UNCHANGED <<api_keys, clusters, diagnoses, now, tx, saves, server, an>>

\* ---- a panic while a request is processed ----
\* the body panicRecoveryMiddleware's deferred function writes
GenericError == "{\"status\":\"error\",\"message\":\"internal server error\"}"

\* the layers whose ServeHTTP frames are on the stack when the request is at
\* its current layer or in its handler: the panic unwinds through them
EnclosingLayers(r) == {server.chain[i] : i \in 1..(r.layer - 1)}

\* a panic is raised in the code of the layer the request is in, or in its
\* handler.  The deferred recover of panicRecoveryMiddleware runs if that
\* middleware encloses the point of the panic and writes the generic 500;
\* otherwise the panic reaches net/http's conn.serve, which recovers it,
\* closes the connection without a response and goes on serving
Panic ==
    /\ server.pc = "up"
    /\ req.pc \in {"mw", "handler"}
    /\ req.pc = "mw" => server.chain[req.layer] \notin {"mux", "panicRecoveryMiddleware"}
    /\ LET at == IF req.pc = "mw" THEN server.chain[req.layer] ELSE req.handler
           r == [req EXCEPT !.panicAt = at]
       IN  req' = IF "panicRecoveryMiddleware" \in EnclosingLayers(req)
                  THEN Respond(r, 500, GenericError)
                  ELSE Respond(r, 0, "connection closed")
    /\ UNCHANGED <<api_keys, clusters, diagnoses, now, tx, saves, server, an>>

\* ---- the mux: the handler registered for the path ----
HandlerFor(path) ==
    CASE path = PathHealth -> "Health"
      [] path = PathHistory -> "DiagnoseHistory"
      [] path = PathReport -> "AgentReport"

MuxStep ==
    /\ AtLayer("mux")
    /\ req' = [req EXCEPT !.pc = "handler", !.handler = HandlerFor(req.path)]
    /\ UNCHANGED <<api_keys, clusters, diagnoses, now, tx, saves, server, an>>

AtHandler(h) == req.pc = "handler" /\ req.handler = h

\* ---- Handler.Health of cmd/server (internal/api/handler.go) ----
HealthPayload == [status |-> "ok", version |-> "1.0.0", ready |-> TRUE]

Health ==
    /\ AtHandler("Health")
    /\ server.binary = "saas"
    /\ req' = IF req.method # "GET"
              THEN Respond(req, 405, "method not allowed")
              ELSE Respond(req, 200, HealthPayload)
    /\ UNCHANGED <<api_keys, clusters, diagnoses, now, tx, saves, server, an>>

\* ---- Handler.Health of the binary with cluster access: lists pods ----
LegacyHealth(podsOK) ==
    /\ AtHandler("Health")
    /\ server.binary = "legacy"
    /\ req' = IF req.method # "GET"
              THEN Respond(req, 405, "method not allowed")
              ELSE IF podsOK
                   THEN Respond(req, 200, [status |-> "ok", clusterId |-> server.clusterID, ready |-> TRUE])
                   ELSE Respond(req, 503, [status |-> "degraded", clusterId |-> server.clusterID, ready |-> FALSE])
    /\ UNCHANGED <<api_keys, clusters, diagnoses, now, tx, saves, server, an>>

\* ---- Handler.DiagnoseHistory ----
\* strconv.Atoi on the raw limits the model sends: <<v>> is a value, << >> an error
Atoi(raw) ==
    CASE raw = "0" -> <<0>> [] raw = "1" -> <<1>> [] raw = "500" -> <<500>>
      [] raw = "-1" -> <<-1>> [] raw = "2" -> <<2>> [] raw = "201" -> <<201>>
      [] OTHER -> << >>

\* time.Parse(time.RFC3339, _) on the (trimmed) instants the model sends
ParseRFC3339(raw) ==
    CASE raw = <<"t", "0">> -> <<0>> [] raw = <<"t", "1">> -> <<1>> [] OTHER -> << >>

\* the Go string made of the given characters, for the names the model uses
StringOf(chars) ==
    CASE chars = << >> -> ""
      [] chars = <<"p", "r", "o", "d">> -> "prod"
      [] chars = <<"d", "e", "v">> -> "dev"
      [] OTHER -> "other"

MutHistoryFilter_NoRangeCheck(q) ==
    LET limit == IF q.limit = "" THEN <<50>> ELSE Atoi(q.limit)
        rawSince == TrimSpace(q.since)
        rawUntil == TrimSpace(q.until)
        since == IF rawSince = << >> THEN NilTime ELSE ParseRFC3339(rawSince)
        until == IF rawUntil = << >> THEN NilTime ELSE ParseRFC3339(rawUntil)
    IN  IF limit = << >> \/ limit[1] <= 0
        THEN [err |-> "invalid limit"]
        ELSE IF rawSince # << >> /\ since = << >>
        THEN [err |-> "invalid since (use RFC3339)"]
        ELSE IF rawUntil # << >> /\ until = << >>
        THEN [err |-> "invalid until (use RFC3339)"]
        ELSE [err |-> "",
              filter |-> [Limit |-> IF limit[1] > 200 THEN 200 ELSE limit[1],
                          FailureType |-> StringOf(TrimSpace(q.failureType)),
                          Namespace |-> StringOf(TrimSpace(q.namespace)),
                          Since |-> since,
                          Until |-> until]]

MutHistoryFilter_NoCeiling(q) ==
    LET limit == IF q.limit = "" THEN <<50>> ELSE Atoi(q.limit)
        rawSince == TrimSpace(q.since)
        rawUntil == TrimSpace(q.until)
        since == IF rawSince = << >> THEN NilTime ELSE ParseRFC3339(rawSince)
        until == IF rawUntil = << >> THEN NilTime ELSE ParseRFC3339(rawUntil)
    IN  IF limit = << >> \/ limit[1] <= 0
        THEN [err |-> "invalid limit"]
        ELSE IF rawSince # << >> /\ since = << >>
        THEN [err |-> "invalid since (use RFC3339)"]
        ELSE IF rawUntil # << >> /\ until = << >>
        THEN [err |-> "invalid until (use RFC3339)"]
        ELSE IF since # NilTime /\ until # NilTime /\ since[1] > until[1]
        THEN [err |-> "since must be earlier than or equal to until"]
        ELSE [err |-> "",
              filter |-> [Limit |-> limit[1],
                          FailureType |-> StringOf(TrimSpace(q.failureType)),
                          Namespace |-> StringOf(TrimSpace(q.namespace)),
                          Since |-> since,
                          Until |-> until]]

\* the filter the handler builds from the query, or the 400 it answers
HistoryFilter(q) ==
    LET limit == IF q.limit = "" THEN <<50>> ELSE Atoi(q.limit)
        rawSince == TrimSpace(q.since)
        rawUntil == TrimSpace(q.until)
        since == IF rawSince = << >> THEN NilTime ELSE ParseRFC3339(rawSince)
        until == IF rawUntil = << >> THEN NilTime ELSE ParseRFC3339(rawUntil)
    IN  IF limit = << >> \/ limit[1] <= 0
        THEN [err |-> "invalid limit"]
        ELSE IF rawSince # << >> /\ since = << >>
        THEN [err |-> "invalid since (use RFC3339)"]
        ELSE IF rawUntil # << >> /\ until = << >>
        THEN [err |-> "invalid until (use RFC3339)"]
        ELSE IF since # NilTime /\ until # NilTime /\ since[1] > until[1]
        THEN [err |-> "since must be earlier than or equal to until"]
        ELSE [err |-> "",
              filter |-> [Limit |-> IF limit[1] > 200 THEN 200 ELSE limit[1],
                          FailureType |-> StringOf(TrimSpace(q.failureType)),
                          Namespace |-> StringOf(TrimSpace(q.namespace)),
                          Since |-> since,
                          Until |-> until]]

\* h.store.ListDiagnoses: the results the configured store can give
StoreListDiagnoses(organizationID, clusterID, filter) ==
    IF server.store = "noop" THEN {<< >>} ELSE ListDiagnoses(organizationID, clusterID, filter)

DiagnoseHistory(fault) ==
    /\ AtHandler("DiagnoseHistory")
    /\ IF req.method # "GET"
       THEN req' = Respond(req, 405, "method not allowed")
       ELSE IF req.ctxOrg = ""
       THEN req' = Respond(req, 500, "missing organization context")
       ELSE IF HistoryFilter(req.payload).err # ""
       THEN req' = Respond(req, 400, HistoryFilter(req.payload).err)
       ELSE LET called == [req EXCEPT !.ops = Append(req.ops, "ListDiagnoses"),
                                       !.bounded = Append(req.bounded, TRUE)] IN
            IF fault /\ server.store = "postgres"
            THEN req' = Respond(called, 500, "failed to load diagnosis history")
            ELSE \E out \in StoreListDiagnoses(req.ctxOrg, server.clusterID,
                                               HistoryFilter(req.payload).filter) :
                    req' = Respond(called, 200,
                                   [cluster |-> server.clusterID, count |-> Len(out), items |-> out])
    /\ UNCHANGED <<api_keys, clusters, diagnoses, now, tx, saves, server, an>>

\* ---- Handler.AgentReport ----
MutAgentReportRejection_NoClusterCheck(r) ==
    IF r.method # "POST" THEN [status |-> 405, body |-> "method not allowed"]
    ELSE IF r.ctxOrg = "" THEN [status |-> 401, body |-> "missing organization context"]
    ELSE IF r.payload.kind = "malformed" THEN [status |-> 400, body |-> "invalid payload"]
    ELSE [status |-> 0, body |-> ""]

MutAgentReportRejection_NoTenantCheck(r) ==
    IF r.method # "POST" THEN [status |-> 405, body |-> "method not allowed"]
    ELSE IF r.payload.kind = "malformed" THEN [status |-> 400, body |-> "invalid payload"]
    ELSE IF r.payload.clusterId = "" THEN [status |-> 400, body |-> "clusterId required"]
    ELSE [status |-> 0, body |-> ""]

\* the early returns: method, organization context, body, cluster id
AgentReportRejection(r) ==
    IF r.method # "POST" THEN [status |-> 405, body |-> "method not allowed"]
    ELSE IF r.ctxOrg = "" THEN [status |-> 401, body |-> "missing organization context"]
    ELSE IF r.payload.kind = "malformed" THEN [status |-> 400, body |-> "invalid payload"]
    ELSE IF r.payload.clusterId = "" THEN [status |-> 400, body |-> "clusterId required"]
    ELSE [status |-> 0, body |-> ""]

AgentReportReject ==
    /\ AtHandler("AgentReport")
    /\ AgentReportRejection(req).status # 0
    /\ req' = Respond(req, AgentReportRejection(req).status, AgentReportRejection(req).body)
    /\ UNCHANGED <<api_keys, clusters, diagnoses, now, tx, saves, server, an>>

Accepted(r) ==
    [status |-> "accepted", id |-> r.payload.clusterId, message |-> "processed diagnoses"]

MutAgentReportDiagnose_ClientTime ==
    /\ AtHandler("AgentReport")
    /\ AgentReportRejection(req).status = 0
    /\ req' = [req EXCEPT !.pc = "diagnosed", !.diagAt = <<now>>,
                          !.batch = DiagnoseFailures(req.ctxOrg, req.payload.clusterId,
                                                     req.payload.failures,
                                                     req.payload.timestamp)]
    /\ UNCHANGED <<api_keys, clusters, diagnoses, now, tx, saves, server, an>>

\* analyzer.DiagnoseFailures runs on the payload's failures; the payload's
\* own timestamp is not passed to it
AgentReportDiagnose ==
    /\ AtHandler("AgentReport")
    /\ AgentReportRejection(req).status = 0
    /\ req' = [req EXCEPT !.pc = "diagnosed", !.diagAt = <<now>>,
                          !.batch = DiagnoseFailures(req.ctxOrg, req.payload.clusterId,
                                                     req.payload.failures, now)]
    /\ UNCHANGED <<api_keys, clusters, diagnoses, now, tx, saves, server, an>>

\* h.store.SaveDiagnoses begins its transaction on s1
AgentReportSave(ok) ==
    /\ req.pc = "diagnosed"
    /\ server.store = "postgres"
    /\ BeginTx("s1", req.ctxOrg, req.payload.clusterId, req.batch, ok)
    /\ req' = [req EXCEPT !.pc = "saving", !.call = Len(saves) + 1,
                          !.ops = Append(req.ops, "SaveDiagnoses"),
                          !.bounded = Append(req.bounded, TRUE)]
    /\ UNCHANGED <<api_keys, clusters, diagnoses, now, server, an>>

\* NoopStore.SaveDiagnoses returns nil
AgentReportSaveNoop ==
    /\ req.pc = "diagnosed"
    /\ server.store = "noop"
    /\ req' = Respond([req EXCEPT !.ops = Append(req.ops, "SaveDiagnoses"),
                                  !.bounded = Append(req.bounded, TRUE)], 200, Accepted(req))
    /\ UNCHANGED <<api_keys, clusters, diagnoses, now, tx, saves, server, an>>

MutAgentReportReturn_AlwaysAccepted ==
    /\ req.pc = "saving"
    /\ saves[req.call].outcome # "running"
    /\ req' = Respond(req, 200, Accepted(req))
    /\ UNCHANGED <<api_keys, clusters, diagnoses, now, tx, saves, server, an>>

\* SaveDiagnoses has returned: the acknowledgement, or the 500
AgentReportReturn ==
    /\ req.pc = "saving"
    /\ saves[req.call].outcome # "running"
    /\ req' = IF saves[req.call].outcome = "ok"
              THEN Respond(req, 200, Accepted(req))
              ELSE Respond(req, 500, "failed to store diagnoses")
    /\ UNCHANGED <<api_keys, clusters, diagnoses, now, tx, saves, server, an>>

\* ---- the operator revokes a credential: UPDATE api_keys SET active = false ----
RevokeAPIKey(keyHash) ==
    /\ keyHash \in DOMAIN api_keys
    /\ api_keys[keyHash].active
    /\ api_keys' = [api_keys EXCEPT ![keyHash].active = FALSE]
    /\ UNCHANGED <<clusters, diagnoses, now, tx, saves, server, req, an>>

Init ==
    /\ StoreInit
    /\ server = ServerIdle
    /\ req = ReqIdle
    /\ an = AnIdle

Next ==
    \/ \E databaseURL \in {"", "postgres://db"}, pgOK \in BOOLEAN, id \in {"", "c1"} :
          ServerMain(databaseURL, pgOK, id)
    \/ \E csOK \in BOOLEAN, databaseURL \in {"", "postgres://db"}, pgOK \in BOOLEAN, id \in {"", "c1"} :
          LegacyMain(csOK, databaseURL, pgOK, id)
    \/ \E method \in Methods, path \in Paths, key \in Headers :
          \E payload \in PayloadsFor(method, path) : Arrive(method, path, key, payload)
    \/ \E fault \in BOOLEAN : APIKeyStep(fault)
    \/ LocalModeStep
    \/ TimeoutStep
    \/ BodySizeLimitStep
    \/ CorsStep
    \/ LoggingStep
    \/ PanicRecoveryStep
    \/ MuxStep
    \/ Health
    \/ \E podsOK \in BOOLEAN : LegacyHealth(podsOK)
    \/ \E fault \in BOOLEAN : DiagnoseHistory(fault)
    \/ AgentReportReject
    \/ AgentReportDiagnose
    \/ \E ok \in BOOLEAN : AgentReportSave(ok)
    \/ AgentReportSaveNoop
    \/ AgentReportReturn
    \/ \E s \in Slots : TxUpsertCluster(s)
    \/ \E s \in Slots : TxPrepare(s)
    \/ \E s \in Slots : TxInsertDiagnosis(s)
    \/ \E s \in Slots : TxCommit(s)
    \/ \E s \in Slots : TxFail(s)
    \/ \E h \in DOMAIN api_keys : RevokeAPIKey(h)
    \/ Tick

Spec == Init /\ [][Next]_vars

\* the server with faults: any layer and any handler can panic
NextPanic == Next \/ Panic

SpecPanic == Init /\ [][NextPanic]_vars

(***************************************************************************)
(* The server over a credentials table in which one active key is bound to *)
(* the empty tenant id (api_keys.organization_id is TEXT NOT NULL, which   *)
(* admits '').                                                             *)
(***************************************************************************)
EmptyTenantAPIKeys ==
    [h \in {hashAPIKey(KeyA), hashAPIKey(KeyX)} |->
        [organization_id |-> IF h = hashAPIKey(KeyA) THEN "orgA" ELSE "",
         active |-> TRUE, last_used_at |-> NilTime]]

InitEmptyTenant ==
    /\ api_keys = EmptyTenantAPIKeys
    /\ clusters = << >>
    /\ diagnoses = {}
    /\ now = 0
    /\ tx = [s \in Slots |-> TxIdle]
    /\ saves = << >>
    /\ server = ServerIdle
    /\ req = ReqIdle
    /\ an = AnIdle

SpecEmptyTenant == InitEmptyTenant /\ [][Next]_vars

(***************************************************************************)
(* History harness: a history request that has passed the middlewares of   *)
(* cmd/server reaches Handler.DiagnoseHistory over a populated table.      *)
(***************************************************************************)
\* row i of a table: an earlier persist for (org, cluster) with created_at t
HistoryRow(i, org, cluster, t) ==
    DiagnosisRow(0, i, org, cluster, IF i % 2 = 1 THEN SampleA(t) ELSE SampleB(t))

\* n rows of one tenant and cluster, created at n different instants
TableOf(n, org, cluster) == {HistoryRow(i, org, cluster, i) : i \in 1..n}

\* rows of two tenants and two clusters, two of them created at one instant
SmallTable ==
    {HistoryRow(1, "orgA", "c1", 0), HistoryRow(2, "orgA", "c1", 0),
     HistoryRow(3, "orgA", "c1", 1), HistoryRow(4, "orgB", "c1", 1),
     HistoryRow(5, "orgA", "saas-backend", 0)}

\* tables below the default limit, just above it, and above the ceiling
SmallTables == {{}, SmallTable, TableOf(EffectiveLimit(NoFilter) + 1, "orgA", "c1")}
BigTables == {TableOf(BigTable, "orgA", "c1")}

\* the clusters table that goes with a diagnoses table (the foreign key)
ClustersOf(table) ==
    [c \in {r.cluster_id : r \in table} |->
        LET last == CHOOSE r \in table :
                        /\ r.cluster_id = c
                        /\ \A y \in table : y.cluster_id = c => y.id[2] <= r.id[2]
        IN  [organization_id |-> last.organization_id, created_at |-> 0,
             updated_at |-> 0, by |-> 0]]

QueryBase ==
    [kind |-> "query", cluster |-> "c1", limit |-> "", failureType |-> << >>,
     namespace |-> << >>, since |-> << >>, until |-> << >>]

\* query strings of the history endpoint: every kind of limit and of range
HistoryQueries ==
    {QueryBase,
     [QueryBase EXCEPT !.cluster = ""],
     [QueryBase EXCEPT !.limit = "abc"],
     [QueryBase EXCEPT !.limit = "0"],
     [QueryBase EXCEPT !.limit = "-1"],
     [QueryBase EXCEPT !.limit = "1"],
     [QueryBase EXCEPT !.limit = "2"],
     [QueryBase EXCEPT !.limit = "201"],
     [QueryBase EXCEPT !.limit = "500"],
     [QueryBase EXCEPT !.namespace = <<" ", "p", "r", "o", "d">>],
     [QueryBase EXCEPT !.since = <<"x">>],
     [QueryBase EXCEPT !.until = <<"x">>],
     [QueryBase EXCEPT !.since = <<"t", "1">>, !.until = <<"t", "0">>],
     [QueryBase EXCEPT !.since = <<"t", "0">>, !.until = <<"t", "0">>],
     [QueryBase EXCEPT !.since = <<"t", "0">>, !.until = <<"t", "1">>]}

BigQueries ==
    {QueryBase, [QueryBase EXCEPT !.limit = "201"], [QueryBase EXCEPT !.limit = "500"]}

\* the request as mux hands it to the handler: authenticated for tenant org;
\* the server runs with KUBEROOT_CLUSTER_ID set to c1 or unset (saas-backend)
HistoryRequest(key, org, q) ==
    [pc |-> "handler", layer |-> Len(SaasChain), method |-> "GET", path |-> PathHistory,
     key |-> key, payload |-> q,
     ctxOrg |-> org, deadline |-> TRUE,
     validate |-> <<[org |-> org, err |-> "", hash |-> hashAPIKey(key)]>>,
     ops |-> <<"ValidateAPIKey">>, bounded |-> <<FALSE>>,
     handler |-> HandlerFor(PathHistory), diagAt |-> NilTime, batch |-> << >>, panicAt |-> "",
     call |-> 0, status |-> 0, body |-> "",
     pre |-> [clusters |-> clusters, diagnoses |-> diagnoses, nsaves |-> Len(saves)]]

InitHistory ==
    /\ saves = << >>
    /\ \E table \in SmallTables \cup BigTables :
          /\ diagnoses = table
          /\ clusters = ClustersOf(table)
          /\ \E key \in {KeyA, KeyB}, q \in HistoryQueries, id \in {"c1", "saas-backend"} :
                /\ table \in BigTables => (key = KeyA /\ q \in BigQueries /\ id = "c1")
                /\ api_keys = [InitialAPIKeys EXCEPT ![hashAPIKey(key)].last_used_at = <<0>>]
                /\ server = [pc |-> "up", binary |-> "saas", store |-> "postgres",
                             clusterID |-> id, chain |-> SaasChain, served |-> 1]
                /\ req = HistoryRequest(key, InitialAPIKeys[hashAPIKey(key)].organization_id, q)
    /\ now = 0
    /\ tx = [s \in Slots |-> TxIdle]
    /\ an = AnIdle

NextHistory == \E fault \in BOOLEAN : DiagnoseHistory(fault)

SpecHistory == InitHistory /\ [][NextHistory]_vars

(***************************************************************************)
(* Properties of the server                                                *)
(***************************************************************************)
Range(f) == {f[i] : i \in DOMAIN f}

\* the credential check is installed in the running server
APIKeyMode == server.pc = "up" /\ "APIKeyMiddleware" \in Range(server.chain)
LocalMode == server.pc = "up" /\ "LocalModeMiddleware" \in Range(server.chain)

\* the current request: no credential in the header (absent, empty, blanks only)
NoCredential == \A i \in 1..Len(req.key) : req.key[i] = " "

\* the current request: the handler was entered
HandlerRan == req.pc # "idle" /\ req.handler # ""

\* the current request: ValidateAPIKey was called / returned a tenant / failed
Validated == req.pc # "idle" /\ Len(req.validate) = 1
ValidateSucceeded == Validated /\ req.validate[1].err = ""
ValidateFailed == Validated /\ req.validate[1].err # ""

ValidateCall == req.pc = "mw" /\ req.validate = << >> /\ Len(req'.validate) = 1

C7_TransportErrorIsInternalError ==
    (APIKeyMode /\ req.pc = "done") =>
        /\ (Validated /\ req.validate[1].err = "validate API key") => req.status >= 500
        /\ req.status = 401 =>
              \/ NoCredential
              \/ (Validated /\ req.validate[1].err = "invalid or inactive API key")

\* the key presented in header k is unknown / revoked
Unknown(k) == hashAPIKey(TrimSpace(k)) \notin DOMAIN api_keys
Revoked(k) ==
    /\ hashAPIKey(TrimSpace(k)) \in DOMAIN api_keys
    /\ ~api_keys[hashAPIKey(TrimSpace(k))].active

\* what the caller sees of a request
ResponseOf(r) == [done |-> r.pc = "done", status |-> r.status, body |-> r.body]

\* the header values that carry an unknown key / a revoked key
UnknownKeys == {k \in Headers : TrimSpace(k) # << >> /\ Unknown(k)}
RevokedKeys == {k \in Headers : Revoked(k)}

\* C8: a request at the credential check gets the same response from the
\* middleware whether it presents an unknown key or a revoked key: 401 with
\* the same body; and a request refused for either reason was answered
\* exactly that
C8_UnknownAndRevokedAlike ==
    /\ AtLayer("APIKeyMiddleware") =>
          \A ku \in UnknownKeys, kr \in RevokedKeys :
              LET asUnknown == APIKeyMiddleware([req EXCEPT !.key = ku], FALSE).req
                  asRevoked == APIKeyMiddleware([req EXCEPT !.key = kr], FALSE).req
              IN  /\ ResponseOf(asUnknown) = ResponseOf(asRevoked)
                  /\ asUnknown.status = 401
                  /\ asRevoked.status = 401
    /\ (APIKeyMode /\ ValidateFailed /\ req.validate[1].err = "invalid or inactive API key") =>
          ResponseOf(req) = [done |-> TRUE, status |-> 401, body |-> "invalid API key"]

\* a request with tenant A's revoked key was answered as one with an unknown key is
C8_Witness ==
    /\ APIKeyMode
    /\ req.pc = "done"
    /\ req.key = KeyA
    /\ Revoked(KeyA)
    /\ Unknown(KeyX)
    /\ ValidateFailed
    /\ req.status = 401
    /\ req.body = "invalid API key"

\* C9 as stated: GET /health is answered with the static readiness payload,
\* whatever the credential, without a Store operation, in both modes
C9_HealthExempt ==
    (req.pc = "done" /\ req.method = "GET" /\ req.path = PathHealth) =>
        /\ req.status = 200
        /\ req.body = HealthPayload
        /\ req.ops = << >>

Ingestion == req.pc # "idle" /\ req.method = "POST" /\ req.path = PathReport

\* its body does not decode, or decodes to an empty cluster id (a missing
\* clusterId decodes to the empty string)
BadBody == req.payload.kind = "malformed" \/ req.payload.clusterId = ""

\* C11: an ingestion request with a malformed body or an empty or missing
\* clusterId never has the analyzer run for it and never starts SaveDiagnoses,
\* the tables stay as they were when it arrived, and its answer is in the
\* 400 class
C11_BadIngestionRejectedEarly ==
    (Ingestion /\ BadBody) =>
        /\ req.diagAt = NilTime
        /\ req.batch = << >>
        /\ req.call = 0
        /\ \A i \in 1..Len(req.ops) : req.ops[i] # "SaveDiagnoses"
        /\ req.pc \in {"mw", "handler", "done"}
        /\ clusters = req.pre.clusters
        /\ diagnoses = req.pre.diagnoses
        /\ saves = << >> \/ \A k \in 1..Len(saves) : saves[k].outcome # "running"
        /\ req.pc = "done" => (req.status >= 400 /\ req.status <= 499)

\* an authenticated report with clusterId "" was answered 400 by the handler
C11_Witness ==
    /\ Ingestion
    /\ req.pc = "done"
    /\ req.key = KeyA
    /\ req.handler = "AgentReport"
    /\ req.payload.kind = "json"
    /\ req.payload.clusterId = ""
    /\ req.payload.failures # << >>
    /\ req.status = 400
    /\ req.body = "clusterId required"

\* steps of the current request: the analyzer runs, SaveDiagnoses is called,
\* the response is written
DiagnoseStep == req.pc # "idle" /\ req.diagAt = NilTime /\ req'.diagAt # NilTime
PersistStep == req.pc # "idle" /\ "SaveDiagnoses" \notin Range(req.ops)
                               /\ "SaveDiagnoses" \in Range(req'.ops)
RespondStep == req.pc \notin {"idle", "done"} /\ req'.pc = "done"

ClusterRows == {[id |-> c, organization_id |-> clusters[c].organization_id] :
                    c \in DOMAIN clusters}
RowContent(r) == [x \in DOMAIN r \ {"id"} |-> r[x]]
Committed(k) == k \in 1..Len(saves) /\ saves[k].outcome = "ok"
SameBatchTwice(k1, k2) ==
    /\ k1 < k2
    /\ Committed(k1) /\ Committed(k2)
    /\ saves[k1].org = saves[k2].org
    /\ saves[k1].cluster = saves[k2].cluster
    /\ saves[k1].batch = saves[k2].batch

\* C13: when the same batch was persisted twice for the same tenant and
\* cluster, the clusters table holds exactly one row for that cluster id (of
\* that tenant) and the diagnoses table holds, for every Diagnosis of the
\* batch, one row from each of the two calls, equal but for the serial id
C13_SameBatchTwiceDuplicatesRows ==
    \A k1 \in 1..Len(saves), k2 \in 1..Len(saves) :
        SameBatchTwice(k1, k2) =>
            LET s == saves[k1]
            IN  /\ Cardinality({cr \in ClusterRows : cr.id = s.cluster}) = 1
                /\ (\A k \in 1..Len(saves) :
                        (Committed(k) /\ saves[k].cluster = s.cluster) => saves[k].org = s.org)
                      => [id |-> s.cluster, organization_id |-> s.org] \in ClusterRows
                /\ \A i \in 1..Len(s.batch) :
                      LET want == RowContent(DiagnosisRow(0, i, s.org, s.cluster, s.batch[i]))
                          r1 == {r \in diagnoses : r.id = <<k1, i>>}
                          r2 == {r \in diagnoses : r.id = <<k2, i>>}
                      IN  /\ Cardinality(r1) = 1 /\ Cardinality(r2) = 1
                          /\ \A r \in r1 \cup r2 : RowContent(r) = want
                          /\ Cardinality({r \in diagnoses :
                                            r.id[1] \in {k1, k2} /\ RowContent(r) = want}) = 2

\* tenant A persisted the two-row batch twice for cluster c1: four rows
C13_Witness ==
    /\ Len(saves) = 2
    /\ SameBatchTwice(1, 2)
    /\ saves[1].org = "orgA"
    /\ saves[1].cluster = "c1"
    /\ Len(saves[1].batch) = 2
    /\ Cardinality(diagnoses) = 4
    /\ \A s \in Slots : tx[s].pc = "idle"

\* call k returns nil in this step
Commits(k) == saves[k].outcome = "running" /\ saves'[k].outcome = "ok"

\* C14: the clusters table has one row per id, and a row names one tenant.
\* When a SaveDiagnoses call of tenant T for cluster C returns nil, the row
\* of C names T, whatever tenant it named before (the upsert of a cluster
\* bound to another tenant is not refused), and no other row changes; the
\* table changes in no other step, so the row names the last committed writer
C14_ClusterRowNamesLastCommitter ==
    [][/\ \A k \in 1..Len(saves) :
              Commits(k) =>
                  LET c == saves[k].cluster
                  IN  /\ c \in DOMAIN clusters'
                      /\ clusters'[c].organization_id = saves[k].org
                      /\ {cr \in ClusterRows' : cr.id = c} =
                            {[id |-> c, organization_id |-> saves[k].org]}
                      /\ \A d \in DOMAIN clusters' \ {c} :
                            d \in DOMAIN clusters /\ clusters'[d] = clusters[d]
                      /\ DOMAIN clusters \subseteq DOMAIN clusters'
       /\ (\A k \in 1..Len(saves) : ~Commits(k)) => clusters' = clusters
    ]_vars

\* cluster c1 was bound to tenant A and a committed persist of tenant B has
\* rebound it
C14_Witness ==
    /\ Len(saves) = 2
    /\ saves[1].cluster = "c1" /\ saves[1].org = "orgA" /\ saves[1].outcome = "ok"
    /\ saves[2].cluster = "c1" /\ saves[2].org = "orgB" /\ saves[2].outcome = "ok"
    /\ "c1" \in DOMAIN clusters
    /\ clusters["c1"].by = 2
    /\ clusters["c1"].organization_id = "orgB"

\* calls k1 and k2 ran concurrently (k2 began while k1 was open), for the
\* same cluster, and both returned nil
ConcurrentPair(k1, k2) ==
    /\ Committed(k1) /\ Committed(k2)
    /\ k1 \in saves[k2].during
    /\ saves[k1].cluster = saves[k2].cluster
OtherOf(k, k1, k2) == IF k = k1 THEN k2 ELSE k1
RowsExpected(k) ==
    {RowContent(DiagnosisRow(0, i, saves[k].org, saves[k].cluster, saves[k].batch[i])) :
        i \in 1..Len(saves[k].batch)}

\* C15 as stated: once two concurrent persists for the same cluster have both
\* committed (and no later call touched the cluster), the Cluster row is the
\* one the opposite commit order leaves, which names the tenant of the call
\* that committed first here
C15_AsStated_CommitOrderIrrelevant ==
    \A k1 \in 1..Len(saves), k2 \in 1..Len(saves) :
        (/\ ConcurrentPair(k1, k2)
         /\ saves[k1].cluster \in DOMAIN clusters
         /\ clusters[saves[k1].cluster].by \in {k1, k2}) =>
            LET c == saves[k1].cluster
                first == OtherOf(clusters[c].by, k1, k2)
            IN  clusters[c].organization_id = saves[first].org

\* C15 (amended): once two concurrent persists for the same cluster have both
\* committed, in either commit order the diagnoses table holds exactly the
\* rows of both batches (one row per Diagnosis and call), and the Cluster row
\* names the tenant of the call that committed last; so the Cluster row's
\* tenant is independent of the commit order when both calls are of one tenant
C15_ConcurrentPersistsSameTenantCommute ==
    \A k1 \in 1..Len(saves), k2 \in 1..Len(saves) :
        (/\ ConcurrentPair(k1, k2)
         /\ saves[k1].cluster \in DOMAIN clusters
         /\ clusters[saves[k1].cluster].by \in {k1, k2}) =>
            LET c == saves[k1].cluster
                last == clusters[c].by
            IN  /\ clusters[c].organization_id = saves[last].org
                /\ saves[k1].org = saves[k2].org =>
                      clusters[c].organization_id = saves[OtherOf(last, k1, k2)].org
                /\ \A k \in {k1, k2} :
                      /\ {r.id[2] : r \in VisibleRows(k)} = 1..Len(saves[k].batch)
                      /\ {RowContent(r) : r \in VisibleRows(k)} = RowsExpected(k)

\* two concurrent persists of tenant A for cluster c1 have committed in the
\* order opposite to the order they began in
C15_Witness ==
    /\ Len(saves) = 2
    /\ ConcurrentPair(1, 2)
    /\ saves[1].org = "orgA" /\ saves[2].org = "orgA"
    /\ saves[1].cluster = "c1"
    /\ Len(saves[1].batch) = 2 /\ Len(saves[2].batch) = 2
    /\ clusters["c1"].by = 1
    /\ clusters["c1"].organization_id = "orgA"
    /\ Cardinality(diagnoses) = 4

(***************************************************************************)
(* Properties of the history endpoint (SpecHistory).                       *)
(***************************************************************************)
NonIncreasing(out) ==
    \A i \in 1..Len(out) - 1 : out[i].Timestamp >= out[i + 1].Timestamp

\* filters a caller of the store can pass, around the default and the ceiling
StoreFilters ==
    {NoFilter,
     [NoFilter EXCEPT !.Limit = -1],
     [NoFilter EXCEPT !.Limit = 2],
     [NoFilter EXCEPT !.Limit = 200],
     [NoFilter EXCEPT !.Limit = 201],
     [NoFilter EXCEPT !.Limit = 2, !.Namespace = "prod", !.Since = <<0>>]}

\* the limit as stated (default 50, ceiling 200) and as the store applies it
StatedLimit(n) == IF n <= 0 THEN 50 ELSE IF n > 200 THEN 200 ELSE n
StoreLimit(n) == IF n <= 0 THEN 50 ELSE n

HistoryAnswered == req.pc = "done" /\ req.handler = "DiagnoseHistory" /\ req.status = 200

\* C16 as stated: for every filter ListDiagnoses returns rows newest first
\* and at most 50 for a non-positive limit, at most 200 for a limit above 200
C16_AsStated_StoreCapsAt200 ==
    \A f \in StoreFilters :
        \A out \in ListDiagnoses("orgA", "c1", f) :
            /\ NonIncreasing(out)
            /\ Len(out) <= StatedLimit(f.Limit)

\* C16 (amended): for every filter ListDiagnoses returns rows newest first
\* and at most filter.Limit of them, 50 when the limit is not positive; the
\* ceiling of 200 is the history handler's, so a history response is newest
\* first and has at most 50 items without a limit parameter and at most
\* min(limit, 200) with one
C16_NewestFirstWithinLimit ==
    /\ \A f \in StoreFilters :
          \A out \in ListDiagnoses("orgA", "c1", f) :
              /\ NonIncreasing(out)
              /\ Len(out) <= StoreLimit(f.Limit)
    /\ HistoryAnswered =>
          /\ NonIncreasing(req.body.items)
          /\ req.body.count = Len(req.body.items)
          /\ req.body.count <= 200
          /\ req.payload.limit = "" => req.body.count <= 50
          /\ req.payload.limit # "" => req.body.count <= Atoi(req.payload.limit)[1]

\* a history request with limit=500 over more than 200 rows of the tenant got
\* 200 items, and a direct listing with the default limit gives 50
C16_Witness ==
    /\ HistoryAnswered
    /\ req.payload.limit = "500"
    /\ Cardinality(diagnoses) > 200
    /\ req.body.count = 200
    /\ \E out \in ListDiagnoses("orgA", "c1", NoFilter) : Len(out) = 50

\* C17 as stated: a history response for a request that names a cluster is
\* the history of that cluster, and of the server's own cluster id only when
\* the request names none
C17_AsStated_HistoryOfNamedCluster ==
    HistoryAnswered =>
        LET named == IF req.payload.cluster # "" THEN req.payload.cluster
                     ELSE server.clusterID
        IN  /\ req.body.cluster = named
            /\ req.body.items \in
                  ListDiagnoses(req.ctxOrg, named, HistoryFilter(req.payload).filter)

\* the raw query values the harness sends, by what they are
PositiveLimits == {"1", "2", "201", "500"}
Instants == {<<"t", "0">>, <<"t", "1">>}
BadLimit(q) == q.limit # "" /\ q.limit \notin PositiveLimits
BadInstant(raw) == raw # << >> /\ raw \notin Instants
Inverted(q) == q.since = <<"t", "1">> /\ q.until = <<"t", "0">>
BadQuery(q) == BadLimit(q) \/ BadInstant(q.since) \/ BadInstant(q.until) \/ Inverted(q)
AtHistory == req.pc \in {"handler", "done"} /\ req.handler = "DiagnoseHistory"

RowsOfIngestion(call, org, clusterId, failures, t) ==
    LET batch == DiagnoseFailures(org, clusterId, failures, t)
    IN  {DiagnosisRow(call, i, org, clusterId, batch[i]) : i \in 1..Len(batch)}

\* C20: the rows a committed ingestion has persisted are determined by the
\* tenant, the payload's cluster id and failures and the backend clock at
\* the time the analyzer ran, and every one of them is stamped with that
\* clock reading: two requests that differ only in the payload's timestamp
\* leave the same rows
C20_ClientTimestampIgnored ==
    (Ingestion /\ req.call # 0 /\ saves[req.call].outcome = "ok") =>
        /\ req.diagAt # NilTime
        /\ VisibleRows(req.call) =
              RowsOfIngestion(req.call, req.ctxOrg, req.payload.clusterId,
                              req.payload.failures, req.diagAt[1])
        /\ diagnoses = req.pre.diagnoses \cup VisibleRows(req.call)
        /\ \A r \in VisibleRows(req.call) : r.created_at = req.diagAt[1]

\* a report stamped by its client with an instant the backend clock never
\* shows was persisted: its rows carry the backend's clock reading
C20_Witness ==
    /\ Ingestion
    /\ req.pc = "done"
    /\ req.status = 200
    /\ req.payload.timestamp = ClientStamp
    /\ req.call # 0
    /\ saves[req.call].outcome = "ok"
    /\ Cardinality(VisibleRows(req.call)) = 2
    /\ req.diagAt = <<1>>
    /\ \A r \in diagnoses : r.created_at = 1

(***************************************************************************)
(* Lifecycle of a Diagnosis row (SpecStore).                               *)
(***************************************************************************)
\* the tenant and cluster a row was written for can list it
Listable(r) ==
    \E out \in ListDiagnoses(r.organization_id, r.cluster_id, NoFilter) :
        \E i \in 1..Len(out) : out[i] = ScanDiagnosis(r)

\* C21: in every step of the store (a call beginning, a statement of an open
\* transaction, a commit, a rollback, among them commits that rebind the
\* row's cluster id to another tenant) every committed diagnoses row stays in
\* the table with all its attributes, and after the step the tenant and
\* cluster it was written for can still list it
C21_CommittedRowsStay ==
    [][\A r \in diagnoses :
          /\ r \in diagnoses'
          /\ Cardinality({x \in diagnoses' : x.id = r.id}) = 1
          /\ Listable(r)'
    ]_vars

\* tenant A's rows for c1 are committed, tenant B has since rebound c1, and
\* tenant A's rows are as written and listed for tenant A
C21_Witness ==
    /\ Len(saves) = 2
    /\ saves[1].org = "orgA" /\ saves[1].cluster = "c1" /\ saves[1].outcome = "ok"
    /\ saves[2].org = "orgB" /\ saves[2].cluster = "c1" /\ saves[2].outcome = "ok"
    /\ 1 \notin saves[2].during
    /\ clusters["c1"].organization_id = "orgB"
    /\ Cardinality(VisibleRows(1)) = 2
    /\ \A r \in VisibleRows(1) : r.organization_id = "orgA" /\ Listable(r)

(***************************************************************************)
(* Bounds on the enriched confidence (SpecEnrich).                         *)
(***************************************************************************)
\* the tier one step below, low staying low
OneStepDown(tier) ==
    CASE tier = TierHigh -> TierMedium [] tier = TierMedium -> TierLow [] OTHER -> TierLow
TierAtMost(a, b) == RefTierScore(a) <= RefTierScore(b)
HasEvidence(failureType, events) ==
    \E i \in 1..Len(events) :
        \E kw \in KeywordsOf(failureType) : HoldsIgnoringCase(events[i], kw)

\* C24: for every base tier and failure type, enrichConfidence called with an
\* empty event list returns a tier that is at most the base tier lowered by
\* one step, low staying low
C24_NoEventsLowersOneStep ==
    (an.pc = "ret" /\ an.events = << >>) => TierAtMost(an.out, OneStepDown(an.base))

\* a base of high with no events came out as medium
C24_Witness ==
    /\ an.pc = "ret"
    /\ an.events = << >>
    /\ an.base = TierHigh
    /\ an.failureType = "OOMKilled"
    /\ an.out = TierMedium

\* C25: for every base tier, when some event of the list holds a keyword of
\* the failure type (letter case ignored) enrichConfidence returns a tier
\* that is at least the base tier
C25_EvidenceNeverLowers ==
    (an.pc = "ret" /\ HasEvidence(an.failureType, an.events)) => TierAtMost(an.base, an.out)

\* a base of medium with a matching event after a non-matching one came out
\* as high
C25_Witness ==
    /\ an.pc = "ret"
    /\ an.base = TierMedium
    /\ an.failureType = "CrashLoopBackOff"
    /\ an.events = <<EvCreated, EvBackOff>>
    /\ an.out = TierHigh

(***************************************************************************)
(* Diagnosis harness: one call of DiagnoseFailures on drawn failure        *)
(* records.                                                                *)
(***************************************************************************)
EvCreatedDots == <<"C","r","e","a","t","e","d",":"," ",".",".",".">>
EvStartedDots == <<"S","t","a","r","t","e","d",":"," ",".",".",".">>

\* k8s.PodFailure records as DetectFailures and the collector produce them
RestartLoopRecord ==
    [Namespace |-> "prod", Name |-> "web", Types |-> <<"CrashLoopBackOff">>,
     Events |-> <<EvCreatedDots, EvStartedDots, EvBackOff>>]
ImagePullRecord ==
    [Namespace |-> "prod", Name |-> "img", Types |-> <<"ImagePullBackOff">>,
     Events |-> << >>]
UnschedulableRecord ==
    [Namespace |-> "dev", Name |-> "job", Types |-> <<"FailedScheduling">>,
     Events |-> << >>]
MixedRecord ==
    [Namespace |-> "dev", Name |-> "api",
     Types |-> <<"OOMKilled", "FailedScheduling", "CrashLoopBackOff">>,
     Events |-> <<EvKilling>>]
FutureTypeRecord ==
    [Namespace |-> "dev", Name |-> "new", Types |-> <<"Evicted", "OOMKilled">>,
     Events |-> <<EvOutOfMemory>>]
NoTypeRecord ==
    [Namespace |-> "dev", Name |-> "idle", Types |-> << >>, Events |-> << >>]

Records ==
    {RestartLoopRecord, ImagePullRecord, UnschedulableRecord, MixedRecord,
     FutureTypeRecord, NoTypeRecord}

AnDiagnoseInit ==
    \E orgID \in Orgs, failures \in SeqsUpTo(Records, MaxRecords) :
        an = [pc |-> "dcall", orgID |-> orgID, clusterID |-> "c1", failures |-> failures]

InitDiagnose ==
    /\ StoreInit
    /\ server = ServerIdle
    /\ req = ReqIdle
    /\ AnDiagnoseInit

CallDiagnoseFailures ==
    /\ an.pc = "dcall"
    /\ an' = [pc |-> "dret", orgID |-> an.orgID, clusterID |-> an.clusterID,
              failures |-> an.failures, at |-> now,
              out |-> DiagnoseFailures(an.orgID, an.clusterID, an.failures, now)]
    /\ UNCHANGED <<api_keys, clusters, diagnoses, now, tx, saves, server, req>>

NextDiagnose == CallDiagnoseFailures

SpecDiagnose == InitDiagnose /\ [][NextDiagnose]_vars

(***************************************************************************)
(* Properties of DiagnoseFailures (SpecDiagnose).                          *)
(***************************************************************************)
Ruled(tag) == \E r \in Range(v1Rules) : r.FailureType = tag
RefRule(tag) == CHOOSE r \in Range(v1Rules) : r.FailureType = tag
Returned == an.pc = "dret"

\* the input with every tag that has no rule taken out
WithoutRuleless(failures) ==
    [i \in 1..Len(failures) |-> [failures[i] EXCEPT !.Types = SelectSeq(@, Ruled)]]

\* the (record, tag) pairs of the input whose tag has a rule, their order in
\* the input, and the place of a pair among them
RuledPairs(failures) ==
    UNION {{<<i, j>> : j \in {x \in 1..Len(failures[i].Types) : Ruled(failures[i].Types[x])}} :
              i \in 1..Len(failures)}
Before(q, p) == q[1] < p[1] \/ (q[1] = p[1] /\ q[2] < p[2])
PlaceOf(p, pairs) == Cardinality({q \in pairs : Before(q, p)}) + 1

\* C22: no Diagnosis of the result carries a tag without a rule (the
\* FailedScheduling tag of DetectFailures and an unknown tag among them), the
\* call returns its list in every case, and the list is the one the call
\* returns for the same input with the rule-less tags taken out
C22_RulelessTagsDropped ==
    Returned =>
        /\ \A k \in 1..Len(an.out) :
              /\ Ruled(an.out[k].FailureType)
              /\ an.out[k].FailureType \notin {"FailedScheduling", "Evicted"}
        /\ an.out = DiagnoseFailures(an.orgID, an.clusterID,
                                     WithoutRuleless(an.failures), an.at)
        /\ Len(an.out) = Cardinality(RuledPairs(an.failures))

\* a record tagged OOMKilled, FailedScheduling, CrashLoopBackOff and a record
\* tagged FailedScheduling only gave the two Diagnoses of the first record
C22_Witness ==
    /\ Returned
    /\ an.failures = <<MixedRecord, UnschedulableRecord>>
    /\ Len(an.out) = 2
    /\ an.out[1].FailureType = "OOMKilled"
    /\ an.out[2].FailureType = "CrashLoopBackOff"
    /\ an.out[2].PodName = "api"

\* C23: the result has one Diagnosis for every (record, tag) pair whose tag
\* has a rule and no other, in the order of the input; the Diagnosis of a
\* pair carries the call's tenant and cluster id, the record's name and
\* namespace, the rule's failure type, cause and fix and the record's events
C23_OneDiagnosisPerRuledPair ==
    Returned =>
        LET pairs == RuledPairs(an.failures)
        IN  /\ Len(an.out) = Cardinality(pairs)
            /\ \A p \in pairs :
                  LET d == an.out[PlaceOf(p, pairs)]
                      f == an.failures[p[1]]
                      r == RefRule(f.Types[p[2]])
                  IN  /\ d.OrganizationID = an.orgID
                      /\ d.ClusterID = an.clusterID
                      /\ d.PodName = f.Name
                      /\ d.Namespace = f.Namespace
                      /\ d.FailureType = f.Types[p[2]]
                      /\ d.FailureType = r.FailureType
                      /\ d.LikelyCause = r.LikelyCause
                      /\ d.SuggestedFix = r.SuggestedFix
                      /\ d.Events = f.Events
                      /\ d.Confidence \in Tiers
                      /\ d.Timestamp = an.at

\* two records with three ruled tags between them gave three Diagnoses in
\* input order
C23_Witness ==
    /\ Returned
    /\ an.orgID = "orgB"
    /\ an.failures = <<FutureTypeRecord, MixedRecord>>
    /\ Len(an.out) = 3
    /\ an.out[1].PodName = "new" /\ an.out[1].FailureType = "OOMKilled"
    /\ an.out[2].PodName = "api" /\ an.out[2].FailureType = "OOMKilled"
    /\ an.out[3].PodName = "api" /\ an.out[3].FailureType = "CrashLoopBackOff"
    /\ an.out[3].OrganizationID = "orgB"

\* C26: the restart-loop record with the events "Created: ...",
\* "Started: ...", "BackOff: Back-off restarting failed container" is
\* diagnosed with confidence high, and the image-pull-failure record with no
\* events is diagnosed with confidence medium
C26_ScenarioConfidences ==
    Returned =>
        \A i \in 1..Len(an.failures) :
            /\ an.failures[i] = RestartLoopRecord =>
                  \E k \in 1..Len(an.out) :
                      /\ an.out[k].PodName = RestartLoopRecord.Name
                      /\ an.out[k].FailureType = "CrashLoopBackOff"
                      /\ an.out[k].Events = <<EvCreatedDots, EvStartedDots, EvBackOff>>
                      /\ RefRule("CrashLoopBackOff").Confidence = TierMedium
                      /\ an.out[k].Confidence = TierHigh
            /\ an.failures[i] = ImagePullRecord =>
                  \E k \in 1..Len(an.out) :
                      /\ an.out[k].PodName = ImagePullRecord.Name
                      /\ an.out[k].FailureType = "ImagePullBackOff"
                      /\ an.out[k].Events = << >>
                      /\ RefRule("ImagePullBackOff").Confidence = TierHigh
                      /\ an.out[k].Confidence = TierMedium

\* both scenario records in one call
C26_Witness ==
    /\ Returned
    /\ an.failures = <<RestartLoopRecord, ImagePullRecord>>
    /\ Len(an.out) = 2
    /\ an.out[1].Confidence = TierHigh
    /\ an.out[2].Confidence = TierMedium

(***************************************************************************)
(* Properties of the server under faults (SpecPanic).                      *)
(***************************************************************************)
Panicked == req.pc = "done" /\ req.panicAt # ""

\* C27 as stated: a request to cmd/server in which a panic was raised, in
\* whatever layer or handler, is answered with the generic 500 and the
\* server stays up
C27_AsStated_EveryPanicAnswered500 ==
    (Panicked /\ server.binary = "saas") =>
        /\ req.status = 500
        /\ req.body = GenericError
        /\ server.pc = "up"

\* C28 as stated: every Store operation called for the request was called
\* with a context that carried a deadline
C28_AsStated_EveryStoreCallHasDeadline ==
    req.pc # "idle" =>
        /\ Len(req.bounded) = Len(req.ops)
        /\ \A i \in 1..Len(req.ops) : req.bounded[i]

StoreOperations == {"ValidateAPIKey", "SaveDiagnoses", "ListDiagnoses"}
CallsOf(op) == Cardinality({i \in 1..Len(req.ops) : req.ops[i] = op})
Answered == req.pc = "done"

eventText(event) ==
    LET reason == TrimSpace(event.Reason)
        message == TrimSpace(event.Message)
    IN  IF reason # << >> /\ message # << >> THEN reason \o <<":", " ">> \o message
        ELSE IF reason = << >> THEN message
        ELSE reason

\* an unset time is 0 (IsZero); an event without a series has Series = NoSeries
NoSeries == [set |-> FALSE, LastObservedTime |-> 0]

MutEventTimestamp_NewestField(event) ==
    LET fields == {event.EventTime, event.LastTimestamp, event.Series.LastObservedTime,
                   event.FirstTimestamp, event.CreationTimestamp}
    IN  CHOOSE t \in fields : \A u \in fields : u <= t

\* the time an event is ordered by: the first that is set of event time,
\* last timestamp, the series' last observed time, first timestamp and
\* creation time; the zero time when none is set
eventTimestamp(event) ==
    IF event.EventTime # 0 THEN event.EventTime
    ELSE IF event.LastTimestamp # 0 THEN event.LastTimestamp
    ELSE IF event.Series.set /\ event.Series.LastObservedTime # 0
         THEN event.Series.LastObservedTime
    ELSE IF event.FirstTimestamp # 0 THEN event.FirstTimestamp
    ELSE IF event.CreationTimestamp # 0 THEN event.CreationTimestamp
    ELSE 0

RECURSIVE MutDedupLoop_KeepsAll(_, _, _)
MutDedupLoop_KeepsAll(items, i, seen) ==
    IF i > Len(items) THEN << >>
    ELSE LET text == eventText(items[i]) IN
         IF text = << >>
         THEN MutDedupLoop_KeepsAll(items, i + 1, seen)
         ELSE <<[text |-> text, ts |-> eventTimestamp(items[i])]>>
              \o MutDedupLoop_KeepsAll(items, i + 1, seen \cup {text})

\* the loop over eventList.Items from its i-th item on: the entries appended
RECURSIVE dedupLoop(_, _, _)
dedupLoop(items, i, seen) ==
    IF i > Len(items) THEN << >>
    ELSE LET text == eventText(items[i]) IN
         IF text = << >> \/ text \in seen
         THEN dedupLoop(items, i + 1, seen)
         ELSE <<[text |-> text, ts |-> eventTimestamp(items[i])]>>
              \o dedupLoop(items, i + 1, seen \cup {text})

\* sort.Slice with ts.After as less: every order of the entries with no
\* later entry strictly newer than an earlier one (the sort is not stable)
sortSlice(entries) ==
    {[k \in 1..Len(entries) |-> entries[p[k]]] :
        p \in {q \in [1..Len(entries) -> 1..Len(entries)] :
                  /\ \A a, b \in 1..Len(entries) : a # b => q[a] # q[b]
                  /\ \A a, b \in 1..Len(entries) :
                        a < b => entries[q[a]].ts >= entries[q[b]].ts}}

\* the lists the function can return for the items the API server listed
getRecentPodEvents(items, limit) ==
    {[k \in 1..(IF limit > 0 /\ Len(s) > limit THEN limit ELSE Len(s)) |-> s[k].text] :
        s \in sortSlice(dedupLoop(items, 1, {}))}

\* source events: reasons and messages with and without padding, empty ones,
\* and a reason that reads like another event's "reason: message"
SourceEvents ==
    [Reason : {<< >>, <<" ">>, <<"A">>, <<"A", " ">>, <<"A", ":", " ", "B">>},
     Message : {<< >>, <<"B">>, <<" ", "B">>},
     EventTime : {0}, LastTimestamp : {0, 1}, Series : {NoSeries},
     FirstTimestamp : {0}, CreationTimestamp : {0}]

\* the limit GetFailedPods passes
EventsCap == 3

\* lists of one event more than the cap, of distinct texts, each event with
\* its times set in one of six ways
StampedLists ==
    LET stamps == {[EventTime |-> 4, LastTimestamp |-> 1, Series |-> NoSeries,
                    FirstTimestamp |-> 0, CreationTimestamp |-> 1],
                   [EventTime |-> 0, LastTimestamp |-> 3, Series |-> NoSeries,
                    FirstTimestamp |-> 1, CreationTimestamp |-> 4],
                   [EventTime |-> 0, LastTimestamp |-> 0,
                    Series |-> [set |-> TRUE, LastObservedTime |-> 2],
                    FirstTimestamp |-> 4, CreationTimestamp |-> 1],
                   [EventTime |-> 0, LastTimestamp |-> 0,
                    Series |-> [set |-> TRUE, LastObservedTime |-> 0],
                    FirstTimestamp |-> 1, CreationTimestamp |-> 3],
                   [EventTime |-> 0, LastTimestamp |-> 0, Series |-> NoSeries,
                    FirstTimestamp |-> 0, CreationTimestamp |-> 2],
                   [EventTime |-> 0, LastTimestamp |-> 0, Series |-> NoSeries,
                    FirstTimestamp |-> 0, CreationTimestamp |-> 0]}
        reasons == <<<<"A">>, <<"B">>, <<"C">>, <<"D">>>>
    IN  {[k \in 1..(EventsCap + 1) |->
            [Reason |-> reasons[k], Message |-> << >>,
             EventTime |-> st[k].EventTime, LastTimestamp |-> st[k].LastTimestamp,
             Series |-> st[k].Series, FirstTimestamp |-> st[k].FirstTimestamp,
             CreationTimestamp |-> st[k].CreationTimestamp]] :
         st \in [1..(EventsCap + 1) -> stamps]}

InitEvents ==
    /\ StoreInit
    /\ server = ServerIdle
    /\ req = ReqIdle
    /\ \E items \in SeqsUpTo(SourceEvents, MaxFetched) \cup StampedLists,
          limit \in {0, 1, EventsCap} :
          an = [pc |-> "ecall", items |-> items, limit |-> limit]

\* cs.CoreV1().Events(namespace).List fails, or the list is processed
CallGetRecentPodEvents(listOK) ==
    /\ an.pc = "ecall"
    /\ IF listOK
       THEN \E out \in getRecentPodEvents(an.items, an.limit) :
               an' = [pc |-> "eret", items |-> an.items, limit |-> an.limit,
                      err |-> FALSE, out |-> out]
       ELSE an' = [pc |-> "eret", items |-> an.items, limit |-> an.limit,
                   err |-> TRUE, out |-> << >>]
    /\ UNCHANGED <<api_keys, clusters, diagnoses, now, tx, saves, server, req>>

NextEvents == \E listOK \in BOOLEAN : CallGetRecentPodEvents(listOK)

SpecEvents == InitEvents /\ [][NextEvents]_vars

\* the source events that are not dropped, the first event with a given
\* text, and its timestamp
Texts(items) == {eventText(items[i]) : i \in 1..Len(items)} \ {<< >>}
FirstWith(items, text) ==
    CHOOSE i \in 1..Len(items) :
        /\ eventText(items[i]) = text
        /\ \A j \in 1..(i - 1) : eventText(items[j]) # text
SameReasonAndMessage(e, f) ==
    /\ TrimSpace(e.Reason) = TrimSpace(f.Reason)
    /\ TrimSpace(e.Message) = TrimSpace(f.Message)

StampOf(text) == eventTimestamp(an.items[FirstWith(an.items, text)])
\* the first non-zero of the five times, read off the fields one by one
FirstNonZero(times) ==
    IF \A k \in 1..Len(times) : times[k] = 0 THEN 0
    ELSE times[CHOOSE k \in 1..Len(times) :
                  times[k] # 0 /\ \A j \in 1..(k - 1) : times[j] = 0]
FieldsOf(e) ==
    <<e.EventTime, e.LastTimestamp, IF e.Series.set THEN e.Series.LastObservedTime ELSE 0,
      e.FirstTimestamp, e.CreationTimestamp>>

\* C31: called with the cap of 3, getRecentPodEvents returns at most 3
\* entries in non-increasing order of time; when more than 3 distinct events
\* were fetched it returns exactly 3 and no event left out is newer than one
\* returned; an event's time is the first non-zero of its event time, last
\* timestamp, series last-observed time, first timestamp and creation time
C31_CapAndOrder ==
    (an.pc = "eret" /\ ~an.err /\ an.limit = EventsCap) =>
        /\ Len(an.out) <= EventsCap
        /\ \A k \in 1..Len(an.items) :
              eventTimestamp(an.items[k]) = FirstNonZero(FieldsOf(an.items[k]))
        /\ \A a, b \in 1..Len(an.out) : a < b => StampOf(an.out[a]) >= StampOf(an.out[b])
        /\ Cardinality(Texts(an.items)) > EventsCap =>
              /\ Len(an.out) = EventsCap
              /\ \A t \in Texts(an.items) \ Range(an.out) :
                    \A k \in 1..Len(an.out) : StampOf(an.out[k]) >= StampOf(t)

\* four distinct events, the oldest by its series time although its first
\* timestamp is the newest time of all, and it is the one left out
C31_Witness ==
    /\ an.pc = "eret"
    /\ ~an.err
    /\ an.limit = EventsCap
    /\ Len(an.items) = EventsCap + 1
    /\ an.items[2].Series.set /\ an.items[2].FirstTimestamp = 4
    /\ eventTimestamp(an.items[2]) = 2
    /\ \A k \in {1, 3, 4} : eventTimestamp(an.items[k]) > 2
    /\ Len(an.out) = EventsCap
    /\ <<"B">> \notin Range(an.out)

(***************************************************************************)
(* internal/k8s: DetectFailures and GetFailedPods, and a harness that      *)
(* calls them on drawn pods.                                               *)
(***************************************************************************)
\* a container state: Waiting and Terminated are pointers, set or nil
NoState == [set |-> FALSE, Reason |-> "", Message |-> ""]
ContainerStates ==
    {[Waiting |-> w, Terminated |-> t] :
        <<w, t>> \in
          {<<NoState, NoState>>,
           <<[set |-> TRUE, Reason |-> "CrashLoopBackOff", Message |-> "back-off"], NoState>>,
           <<[set |-> TRUE, Reason |-> "ImagePullBackOff", Message |-> "pull"], NoState>>,
           <<[set |-> TRUE, Reason |-> "ErrImagePull", Message |-> "pull"], NoState>>,
           <<NoState, [set |-> TRUE, Reason |-> "OOMKilled", Message |-> ""]>>,
           <<NoState, [set |-> TRUE, Reason |-> "Error", Message |-> "exit 1"]>>,
           <<[set |-> TRUE, Reason |-> "CrashLoopBackOff", Message |-> "back-off"],
             [set |-> TRUE, Reason |-> "OOMKilled", Message |-> "oom"]>>}}

\* pod.Status.Conditions: at most one condition of a type
ConditionLists ==
    LET sched(status) == [Type |-> "PodScheduled", Status |-> status, Message |-> "0/3 nodes"]
        ready == [Type |-> "Ready", Status |-> "False", Message |-> "not ready"]
    IN  {<< >>, <<sched("False")>>, <<sched("True")>>, <<sched("Unknown")>>, <<ready>>,
         <<ready, sched("False")>>, <<sched("True"), ready>>}

\* pods: at most one init container, up to MaxContainers regular ones
Pods ==
    {[Namespace |-> "prod", Name |-> "web",
      InitContainerStatuses |-> [k \in 1..Len(ini) |-> [Name |-> <<"init", k>>, State |-> ini[k]]],
      ContainerStatuses |-> [k \in 1..Len(reg) |-> [Name |-> <<"c", k>>, State |-> reg[k]]],
      Conditions |-> conds] :
        ini \in SeqsUpTo(ContainerStates, 1), reg \in SeqsUpTo(ContainerStates, MaxContainers),
        conds \in ConditionLists}

\* the closure checkContainerStatuses: the records appended for statuses
RECURSIVE checkContainerStatuses(_, _)
checkContainerStatuses(pod, statuses) ==
    IF statuses = << >> THEN << >>
    ELSE LET cs == Head(statuses)
             waiting == cs.State.Waiting
             terminated == cs.State.Terminated
             known == waiting.set /\ waiting.Reason \in {"CrashLoopBackOff", "ImagePullBackOff"}
             oom == terminated.set /\ terminated.Reason = "OOMKilled"
             types == (IF known THEN <<waiting.Reason>> ELSE << >>)
                      \o (IF oom THEN <<"OOMKilled">> ELSE << >>)
             msg == IF oom /\ terminated.Message # "" THEN terminated.Message
                    ELSE IF known THEN waiting.Message
                    ELSE ""
         IN  (IF Len(types) > 0
              THEN <<[Namespace |-> pod.Namespace, Name |-> pod.Name, Container |-> cs.Name,
                      Types |-> types, Message |-> msg, Events |-> << >>]>>
              ELSE << >>)
             \o checkContainerStatuses(pod, Tail(statuses))

\* the loop over pod.Status.Conditions; a container name is a tuple, the
\* empty name << >>
RECURSIVE conditionsLoop(_, _)
conditionsLoop(pod, conds) ==
    IF conds = << >> THEN << >>
    ELSE (IF Head(conds).Type = "PodScheduled" /\ Head(conds).Status = "False"
          THEN <<[Namespace |-> pod.Namespace, Name |-> pod.Name, Container |-> << >>,
                  Types |-> <<"FailedScheduling">>, Message |-> Head(conds).Message,
                  Events |-> << >>]>>
          ELSE << >>)
         \o conditionsLoop(pod, Tail(conds))

MutDetectFailures_SchedulingOnlyWithoutContainerFailure(pod) ==
    LET c == checkContainerStatuses(pod, pod.InitContainerStatuses)
             \o checkContainerStatuses(pod, pod.ContainerStatuses)
    IN  IF c # << >> THEN c ELSE conditionsLoop(pod, pod.Conditions)

DetectFailures(pod) ==
    checkContainerStatuses(pod, pod.InitContainerStatuses)
    \o checkContainerStatuses(pod, pod.ContainerStatuses)
    \o conditionsLoop(pod, pod.Conditions)

\* what the API server answers to the event query of a pod: an error, or
\* the events listed
EventFetches ==
    LET ev(reason, t) == [Reason |-> reason, Message |-> << >>, EventTime |-> 0,
                          LastTimestamp |-> t, Series |-> NoSeries,
                          FirstTimestamp |-> 0, CreationTimestamp |-> 0]
    IN  {[ok |-> FALSE, items |-> << >>],
         [ok |-> TRUE, items |-> << >>],
         [ok |-> TRUE, items |-> <<ev(<<"A">>, 1)>>],
         [ok |-> TRUE, items |-> <<ev(<<"A">>, 1), ev(<<"B">>, 1)>>]}

\* the pods of the listings: one without failure, one with a failing
\* container, one that is unschedulable with a failing init container
ListedPods ==
    {pod \in Pods :
        \/ pod.InitContainerStatuses = << >> /\ pod.Conditions = << >>
           /\ Len(pod.ContainerStatuses) = 1
           /\ pod.ContainerStatuses[1].State.Waiting.Reason \in {"", "CrashLoopBackOff"}
           /\ ~pod.ContainerStatuses[1].State.Terminated.set
        \/ Len(pod.InitContainerStatuses) = 1 /\ pod.ContainerStatuses = << >>
           /\ pod.InitContainerStatuses[1].State.Waiting.Reason = "ImagePullBackOff"
           /\ Len(pod.Conditions) = 1 /\ pod.Conditions[1].Status = "False"
           /\ pod.Conditions[1].Type = "PodScheduled"}

withEvents(failures, recentEvents) ==
    [i \in 1..Len(failures) |-> [failures[i] EXCEPT !.Events = recentEvents]]

RECURSIVE MutPodsLoop_SkipsPodOnError(_, _, _)
MutPodsLoop_SkipsPodOnError(pods, fetch, i) ==
    IF i > Len(pods) THEN {[err |-> FALSE, out |-> << >>]}
    ELSE LET failures == DetectFailures(pods[i]) IN
         IF Len(failures) = 0 \/ ~fetch[i].ok
         THEN MutPodsLoop_SkipsPodOnError(pods, fetch, i + 1)
         ELSE {IF rest.err THEN rest
               ELSE [err |-> FALSE, out |-> withEvents(failures, recentEvents) \o rest.out] :
                  recentEvents \in getRecentPodEvents(fetch[i].items, EventsCap),
                  rest \in MutPodsLoop_SkipsPodOnError(pods, fetch, i + 1)}

\* the loop over podList.Items from the i-th pod on: the results possible
RECURSIVE podsLoop(_, _, _)
podsLoop(pods, fetch, i) ==
    IF i > Len(pods) THEN {[err |-> FALSE, out |-> << >>]}
    ELSE LET failures == DetectFailures(pods[i]) IN
         IF Len(failures) = 0 THEN podsLoop(pods, fetch, i + 1)
         ELSE IF ~fetch[i].ok THEN {[err |-> TRUE, out |-> << >>]}
         ELSE {IF rest.err THEN rest
               ELSE [err |-> FALSE, out |-> withEvents(failures, recentEvents) \o rest.out] :
                  recentEvents \in getRecentPodEvents(fetch[i].items, EventsCap),
                  rest \in podsLoop(pods, fetch, i + 1)}

GetFailedPods(listOK, pods, fetch) ==
    IF ~listOK THEN {[err |-> TRUE, out |-> << >>]} ELSE podsLoop(pods, fetch, 1)

InitDetect ==
    /\ StoreInit
    /\ server = ServerIdle
    /\ req = ReqIdle
    /\ \/ \E pod \in Pods : an = [pc |-> "fcall", pod |-> pod]
       \/ \E pods \in SeqsUpTo(ListedPods, MaxPods), listOK \in BOOLEAN :
             \E fetch \in [1..Len(pods) -> EventFetches] :
                an = [pc |-> "gcall", listOK |-> listOK, pods |-> pods, fetch |-> fetch]

CallDetectFailures ==
    /\ an.pc = "fcall"
    /\ an' = [pc |-> "fret", pod |-> an.pod, out |-> DetectFailures(an.pod)]
    /\ UNCHANGED <<api_keys, clusters, diagnoses, now, tx, saves, server, req>>

CallGetFailedPods ==
    /\ an.pc = "gcall"
    /\ \E res \in GetFailedPods(an.listOK, an.pods, an.fetch) :
          an' = [pc |-> "gret", listOK |-> an.listOK, pods |-> an.pods, fetch |-> an.fetch,
                 err |-> res.err, out |-> res.out]
    /\ UNCHANGED <<api_keys, clusters, diagnoses, now, tx, saves, server, req>>

NextDetect == CallDetectFailures \/ CallGetFailedPods

SpecDetect == InitDetect /\ [][NextDetect]_vars

(***************************************************************************)
(* Properties of detection (SpecDetect)                                    *)
(***************************************************************************)
\* the pods of a listing that have a failure, by place
Failing(pods) == {i \in 1..Len(pods) : DetectFailures(pods[i]) # << >>}
RecordsOfPod(out, pod) == {k \in 1..Len(out) : out[k].Name = pod.Name /\ out[k].Namespace = pod.Namespace}
RECURSIVE CountRecords(_, _)
CountRecords(pods, i) ==
    IF i > Len(pods) THEN 0 ELSE Len(DetectFailures(pods[i])) + CountRecords(pods, i + 1)

\* C32: when the event query of a pod with failures fails, GetFailedPods
\* returns an error and no record; when every such query succeeds it returns
\* no error and every record of every failing pod, and the records of a pod
\* whose query listed no events carry an empty event list
C32_EventFetchFailureFailsDetection ==
    (an.pc = "gret" /\ an.listOK) =>
        /\ (\E i \in Failing(an.pods) : ~an.fetch[i].ok) => (an.err /\ an.out = << >>)
        /\ (\A i \in Failing(an.pods) : an.fetch[i].ok) =>
              /\ ~an.err
              /\ Len(an.out) = CountRecords(an.pods, 1)
              /\ \A i \in Failing(an.pods) :
                    an.fetch[i].items = << >> =>
                       /\ RecordsOfPod(an.out, an.pods[i]) # {}
                       /\ (\A j \in Failing(an.pods) : an.fetch[j].items = << >>) =>
                             \A k \in 1..Len(an.out) : an.out[k].Events = << >>

\* the query of the second failing pod failed after the first pod's events
\* were fetched: an error and no record
C32_Witness ==
    /\ an.pc = "gret"
    /\ an.listOK
    /\ Len(an.pods) = 2
    /\ Failing(an.pods) = {1, 2}
    /\ an.fetch[1].ok /\ ~an.fetch[2].ok
    /\ an.err
    /\ an.out = << >>

\* no events for a failing pod: its records, with no events, and no error
C32_WitnessEmpty ==
    /\ an.pc = "gret"
    /\ an.listOK
    /\ Len(an.pods) = 1
    /\ Failing(an.pods) = {1}
    /\ an.fetch[1] = [ok |-> TRUE, items |-> << >>]
    /\ ~an.err
    /\ Len(an.out) = 2
    /\ \A k \in 1..2 : an.out[k].Events = << >>

\* the container statuses of a pod, init containers first
StatusesOf(pod) == pod.InitContainerStatuses \o pod.ContainerStatuses
WaitingFor(cs, reason) == cs.State.Waiting.set /\ cs.State.Waiting.Reason = reason
TerminatedFor(cs, reason) == cs.State.Terminated.set /\ cs.State.Terminated.Reason = reason
Triggered(cs) ==
    \/ WaitingFor(cs, "CrashLoopBackOff")
    \/ WaitingFor(cs, "ImagePullBackOff")
    \/ TerminatedFor(cs, "OOMKilled")
Unscheduled(pod) ==
    {k \in 1..Len(pod.Conditions) :
        pod.Conditions[k].Type = "PodScheduled" /\ pod.Conditions[k].Status = "False"}
Tags(record) == Range(record.Types)

\* C33: every record DetectFailures returns has a tag; there is a record
\* tagged FailedScheduling exactly when the pod's PodScheduled condition is
\* False, whatever its containers' states, and that record has no other tag
\* and no container; a container, init or regular, has a record exactly when
\* it waits for CrashLoopBackOff or ImagePullBackOff or was terminated for
\* OOMKilled, and the record's tags are exactly those of these that hold;
\* there are no other records, so a pod with none of the conditions has none
C33_OneRecordPerCondition ==
    an.pc = "fret" =>
        LET out == an.out
            pod == an.pod
            sts == StatusesOf(pod)
            ofContainer(cs) == {k \in 1..Len(out) : out[k].Container = cs.Name}
            podLevel == {k \in 1..Len(out) : out[k].Container = << >>}
        IN  /\ \A k \in 1..Len(out) : Len(out[k].Types) >= 1
            /\ (\E k \in 1..Len(out) : "FailedScheduling" \in Tags(out[k])) <=> Unscheduled(pod) # {}
            /\ Cardinality(podLevel) = Cardinality(Unscheduled(pod))
            /\ \A k \in podLevel : out[k].Types = <<"FailedScheduling">>
            /\ \A i \in 1..Len(sts) :
                  /\ Cardinality(ofContainer(sts[i])) = IF Triggered(sts[i]) THEN 1 ELSE 0
                  /\ \A k \in ofContainer(sts[i]) :
                        /\ "CrashLoopBackOff" \in Tags(out[k]) <=> WaitingFor(sts[i], "CrashLoopBackOff")
                        /\ "ImagePullBackOff" \in Tags(out[k]) <=> WaitingFor(sts[i], "ImagePullBackOff")
                        /\ "OOMKilled" \in Tags(out[k]) <=> TerminatedFor(sts[i], "OOMKilled")
                        /\ "FailedScheduling" \notin Tags(out[k])
                        /\ Len(out[k].Types) = Cardinality(Tags(out[k]))
            /\ Len(out) = Cardinality(podLevel)
                          + Cardinality({i \in 1..Len(sts) : Triggered(sts[i])})
            /\ \A k \in 1..Len(out) : out[k].Name = pod.Name /\ out[k].Namespace = pod.Namespace

\* a pod that cannot be scheduled and has a restart-looping container: two
\* records
C33_Witness ==
    /\ an.pc = "fret"
    /\ Unscheduled(an.pod) # {}
    /\ \E i \in 1..Len(an.pod.ContainerStatuses) :
          WaitingFor(an.pod.ContainerStatuses[i], "CrashLoopBackOff")
    /\ an.pod.InitContainerStatuses = << >>
    /\ Len(an.out) = 2
    /\ an.out[1].Types = <<"CrashLoopBackOff">>
    /\ an.out[2].Types = <<"FailedScheduling">>

(***************************************************************************)
(* Properties of the listing filters (SpecHistory)                         *)
(***************************************************************************)
\* every combination of set and unset filters over the values of the rows
FilterGrid ==
    [Limit : {0, 1, 2}, FailureType : {"", "OOMKilled", "CrashLoopBackOff"},
     Namespace : {"", "prod", "dev"}, Since : {NilTime, <<0>>, <<1>>},
     Until : {NilTime, <<0>>, <<1>>}]

\* the rows of (org, cluster) a filter lets through, filter by filter
Passes(row, f) ==
    /\ f.FailureType = "" \/ row.failure_type = f.FailureType
    /\ f.Namespace = "" \/ row.namespace = f.Namespace
    /\ f.Since = NilTime \/ f.Since[1] <= row.created_at
    /\ f.Until = NilTime \/ row.created_at <= f.Until[1]
StoredUnder(org, cluster) ==
    {r \in diagnoses : r.organization_id = org /\ r.cluster_id = cluster}
NewestMatching(out, org, cluster, f) ==
    LET matching == {r \in StoredUnder(org, cluster) : Passes(r, f)}
        limit == StoreLimit(f.Limit)
    IN  /\ \A i \in 1..Len(out) : \E r \in matching : out[i] = ScanDiagnosis(r)
        /\ Len(out) = IF Cardinality(matching) > limit THEN limit ELSE Cardinality(matching)
        /\ NonIncreasing(out)
        /\ \A r \in matching :
              ScanDiagnosis(r) \notin Range(out) =>
                 \A i \in 1..Len(out) : out[i].Timestamp >= r.created_at

\* C34: for every tenant, cluster and filter, what ListDiagnoses returns are
\* rows stored under that tenant and cluster that pass every filter that is
\* set (failure type and namespace equal, created at or after since and at
\* or before until), as many as match up to the limit, newest first, no row
\* left out being newer than one returned; and the items of a history
\* response are such a listing for the filter built from the query
C34_FiltersRestrictListing ==
    /\ Cardinality(diagnoses) <= Cardinality(SmallTable) =>
          \A org \in Orgs, cluster \in {"c1", "saas-backend"}, f \in FilterGrid :
             \A out \in ListDiagnoses(org, cluster, f) : NewestMatching(out, org, cluster, f)
    /\ HistoryAnswered =>
          NewestMatching(req.body.items, req.ctxOrg, server.clusterID,
                         HistoryFilter(req.payload).filter)

\* a history request with since = until = instant 0 was answered with the two
\* rows of the tenant created at that instant, and not with the one created
\* later
C34_Witness ==
    /\ HistoryAnswered
    /\ diagnoses = SmallTable
    /\ req.ctxOrg = "orgA"
    /\ server.clusterID = "c1"
    /\ req.payload.since = <<"t", "0">>
    /\ req.payload.until = <<"t", "0">>
    /\ req.body.count = 2
    /\ \A i \in 1..2 : req.body.items[i].Timestamp = 0

\* the request reached the store's ListDiagnoses
ListingIssued == req.handler = "DiagnoseHistory" /\ CallsOf("ListDiagnoses") = 1

\* C35: the filter of every ListDiagnoses call of the history handler has a
\* limit from 1 to 200: 50 without a limit parameter, the parameter's value
\* when that is from 1 to 200, 200 when it is larger; a history response has
\* at most that many items, so never more than 200, as many as the tenant
\* has when those are fewer, and its count is the number of its items
C35_HistoryLimitFrom1To200 ==
    (req.pc # "idle" /\ ListingIssued) =>
        LET f == HistoryFilter(req.payload).filter
            raw == req.payload.limit
            stored == {r \in StoredUnder(req.ctxOrg, server.clusterID) : Passes(r, f)}
        IN  /\ f.Limit \in 1..200
            /\ raw = "" => f.Limit = 50
            /\ raw # "" =>
                  /\ Atoi(raw) # << >>
                  /\ Atoi(raw)[1] >= 1
                  /\ f.Limit = IF Atoi(raw)[1] > 200 THEN 200 ELSE Atoi(raw)[1]
            /\ HistoryAnswered =>
                  /\ req.body.count = Len(req.body.items)
                  /\ Len(req.body.items) <= 200
                  /\ Len(req.body.items) =
                        IF Cardinality(stored) > f.Limit THEN f.Limit ELSE Cardinality(stored)

\* limit=201 over more than 200 rows of the tenant: 200 items, count 200
C35_Witness ==
    /\ HistoryAnswered
    /\ ListingIssued
    /\ req.payload.limit = "201"
    /\ Cardinality(StoredUnder(req.ctxOrg, server.clusterID)) > 200
    /\ Len(req.body.items) = 200
    /\ req.body.count = 200

(***************************************************************************)
(* Ingestion batches without diagnoses (Spec)                              *)
(***************************************************************************)
\* an ingestion request for which the analyzer ran and returned nothing
EmptyIngestion == Ingestion /\ req.diagAt # NilTime /\ req.batch = << >>

\* C36: an ingestion request whose failures give no Diagnosis (no failures,
\* or only failure types without a rule) still calls SaveDiagnoses, with the
\* empty batch; unless the store fails, the transaction commits with the
\* Cluster row of the request's cluster bound to the request's tenant and
\* stamped by this transaction, the diagnoses table is as it was, and the
\* answer is 200 with status "accepted"; the answer is 500 only when the
\* store call failed
C36_EmptyBatchAccepted ==
    (EmptyIngestion /\ req.pc = "done") =>
        /\ \A i \in 1..Len(req.payload.failures) :
              \A j \in 1..Len(req.payload.failures[i].Types) :
                 ~HasRule(req.payload.failures[i].Types[j])
        /\ CallsOf("SaveDiagnoses") = 1
        /\ diagnoses = req.pre.diagnoses
        /\ server.store = "postgres" =>
              /\ saves[req.call].batch = << >>
              /\ saves[req.call].outcome \in {"ok", "err"}
              /\ saves[req.call].outcome = "ok" <=> req.status = 200
              /\ saves[req.call].outcome = "err" <=> req.status = 500
              /\ saves[req.call].outcome = "err" => clusters = req.pre.clusters
              /\ saves[req.call].outcome = "ok" =>
                    /\ req.payload.clusterId \in DOMAIN clusters
                    /\ clusters[req.payload.clusterId].organization_id = req.ctxOrg
                    /\ clusters[req.payload.clusterId].by = req.call
                    /\ \A c \in DOMAIN clusters \ {req.payload.clusterId} :
                          c \in DOMAIN req.pre.clusters /\ clusters[c] = req.pre.clusters[c]
        /\ req.status = 200 => req.body = Accepted(req)

\* a report holding only an unschedulable pod was accepted and registered
\* its cluster, with no Diagnosis row stored
C36_Witness ==
    /\ EmptyIngestion
    /\ req.pc = "done"
    /\ Len(req.payload.failures) = 1
    /\ server.store = "postgres"
    /\ saves[req.call].outcome = "ok"
    /\ req.status = 200
    /\ req.body.status = "accepted"
    /\ "c1" \in DOMAIN clusters
    /\ "c1" \notin DOMAIN req.pre.clusters
    /\ diagnoses = {}

(***************************************************************************)
(* Where SaveDiagnoses stores its rows (SpecStore)                         *)
(***************************************************************************)
\* the call a row was inserted by and the Diagnosis value it was made from
CallOfRow(r) == saves[r.id[1]]
ValueOfRow(r) == CallOfRow(r).batch[r.id[2]]
NamesAnother(r) ==
    \/ ValueOfRow(r).OrganizationID # CallOfRow(r).org
    \/ ValueOfRow(r).ClusterID # CallOfRow(r).cluster

\* C37: every row of the diagnoses table was inserted by a SaveDiagnoses
\* call that committed, carries the tenant and the cluster of that call's
\* arguments, whatever tenant and cluster the Diagnosis value it was made
\* from names, and its cluster id has a row in the clusters table; no row of
\* a call that has not committed is in the table
C37_RowsUnderCallArguments ==
    /\ \A r \in diagnoses :
          /\ r.id[1] \in 1..Len(saves)
          /\ CallOfRow(r).outcome = "ok"
          /\ r.id[2] \in 1..Len(CallOfRow(r).batch)
          /\ r.organization_id = CallOfRow(r).org
          /\ r.cluster_id = CallOfRow(r).cluster
          /\ r.pod_name = ValueOfRow(r).PodName
          /\ r.cluster_id \in DOMAIN clusters
    /\ \A k \in 1..Len(saves) :
          saves[k].outcome = "ok" =>
             /\ saves[k].cluster \in DOMAIN clusters
             /\ Cardinality({r \in diagnoses : r.id[1] = k}) = Len(saves[k].batch)

\* a committed row of tenant A in cluster c2 made from a Diagnosis value that
\* names tenant B and cluster c1
C37_Witness ==
    \E r \in diagnoses :
        /\ r.organization_id = "orgA"
        /\ r.cluster_id # "c1"
        /\ ValueOfRow(r).OrganizationID = "orgB"
        /\ ValueOfRow(r).ClusterID = "c1"
        /\ NamesAnother(r)
        /\ r.cluster_id \in DOMAIN clusters

(***************************************************************************)
(* cmd/agent: runAgentLoop, detectAndReport and sendReport.  The agent's   *)
(* state is in an; the steps are split where the agent blocks (the calls   *)
(* to the cluster and to the backend, the receive from ticker.C), so the   *)
(* ticker can fire in between.                                             *)
(***************************************************************************)
\* what client.Do and the backend can answer to a report: a transport error
\* (status 0) or a response with a status code
SendOutcomes ==
    {[err |-> TRUE, status |-> 0]} \cup {[err |-> FALSE, status |-> c] : c \in {200, 400, 401, 500}}

\* main has parsed its flags and connected; runAgentLoop has made its ticker.
\* pending is the tick waiting in ticker.C (a channel of capacity one)
InitAgent ==
    /\ StoreInit
    /\ server = ServerIdle
    /\ req = ReqIdle
    /\ \E clusterID \in {"local", "c1"} :
          an = [pc |-> "start", config |-> [APIKey |-> KeyA, ClusterID |-> clusterID],
                cycle |-> 0, fired |-> 0, received |-> 0, pending |-> FALSE,
                failures |-> << >>, detected |-> << >>, sent |-> << >>, ended |-> << >>]

\* the ticker fires: the tick is put in ticker.C, or dropped when one waits
TickerFires ==
    /\ an.pc # "idle"
    /\ an.fired < MaxTicks
    /\ an' = [an EXCEPT !.fired = an.fired + 1, !.pending = TRUE]
    /\ UNCHANGED <<api_keys, clusters, diagnoses, now, tx, saves, server, req>>

\* runAgentLoop: detectAndReport is called once before the loop
AgentStart ==
    /\ an.pc = "start"
    /\ an' = [an EXCEPT !.pc = "detect", !.cycle = 1]
    /\ UNCHANGED <<api_keys, clusters, diagnoses, now, tx, saves, server, req>>

\* for range ticker.C: the loop receives a tick and calls detectAndReport
AgentReceiveTick ==
    /\ an.pc = "wait"
    /\ an.pending
    /\ an' = [an EXCEPT !.pc = "detect", !.cycle = an.cycle + 1,
                        !.received = an.received + 1, !.pending = FALSE]
    /\ UNCHANGED <<api_keys, clusters, diagnoses, now, tx, saves, server, req>>

\* detectAndReport up to the call of sendReport: k8s.GetFailedPods on what
\* the cluster answers; on its error the cycle ends
AgentDetect(listOK, pods, fetch) ==
    /\ an.pc = "detect"
    /\ \E res \in GetFailedPods(listOK, pods, fetch) :
          an' = IF res.err
                THEN [an EXCEPT !.pc = "wait", !.detected = Append(an.detected, FALSE),
                                !.ended = Append(an.ended, "detection failed")]
                ELSE [an EXCEPT !.pc = "send", !.detected = Append(an.detected, TRUE),
                                !.failures = res.out]
    /\ UNCHANGED <<api_keys, clusters, diagnoses, now, tx, saves, server, req>>

MutAgentSend_ResendsOnFailure(outcome) ==
    /\ an.pc = "send"
    /\ Len(an.sent) < 2 * (MaxTicks + 1)
    /\ LET request == [cycle |-> an.cycle, method |-> "POST", path |-> PathReport,
                       key |-> an.config.APIKey,
                       payload |-> [kind |-> "json", clusterId |-> an.config.ClusterID,
                                    timestamp |-> now, failures |-> an.failures],
                       outcome |-> outcome]
           ok == ~outcome.err /\ outcome.status = 200
       IN  an' = IF ok
                 THEN [an EXCEPT !.pc = "wait", !.sent = Append(an.sent, request),
                                 !.failures = << >>, !.ended = Append(an.ended, "sent")]
                 ELSE [an EXCEPT !.sent = Append(an.sent, request)]
    /\ UNCHANGED <<api_keys, clusters, diagnoses, now, tx, saves, server, req>>

\* sendReport and the rest of detectAndReport: one POST with the payload;
\* a transport error or a status other than 200 is logged and the cycle ends
AgentSend(outcome) ==
    /\ an.pc = "send"
    /\ LET request == [cycle |-> an.cycle, method |-> "POST", path |-> PathReport,
                       key |-> an.config.APIKey,
                       payload |-> [kind |-> "json", clusterId |-> an.config.ClusterID,
                                    timestamp |-> now, failures |-> an.failures],
                       outcome |-> outcome]
           ok == ~outcome.err /\ outcome.status = 200
       IN  an' = [an EXCEPT !.pc = "wait", !.sent = Append(an.sent, request),
                            !.failures = << >>,
                            !.ended = Append(an.ended, IF ok THEN "sent" ELSE "send failed")]
    /\ UNCHANGED <<api_keys, clusters, diagnoses, now, tx, saves, server, req>>

NextAgent ==
    \/ TickerFires
    \/ AgentStart
    \/ AgentReceiveTick
    \/ \E listOK \in BOOLEAN, pods \in SeqsUpTo(ListedPods, 1) :
          \E fetch \in [1..Len(pods) -> {f \in EventFetches : Len(f.items) < 2}] :
             AgentDetect(listOK, pods, fetch)
    \/ \E outcome \in SendOutcomes : AgentSend(outcome)

SpecAgent == InitAgent /\ [][NextAgent]_vars

(***************************************************************************)
(* Properties of the agent loop (SpecAgent)                                *)
(***************************************************************************)
\* the requests sent in cycle c, and the cycles that have ended
SentIn(c) == {i \in 1..Len(an.sent) : an.sent[i].cycle = c}
EndedCycles == Len(an.ended)
Failed(c) == an.ended[c] # "sent"

\* C38: the agent begins its first cycle at start without waiting for a
\* tick, and one further cycle for each tick it receives from its ticker,
\* never one without a tick; a cycle sends at most one request; a cycle
\* whose detection failed sends none; a cycle whose request met a transport
\* error or a status other than 200 ends as failed with that one request
\* sent; and after a cycle has ended, failed or not, the loop waits for the
\* ticker and takes the next tick
C38_OneCyclePerTick ==
    an.pc # "start" =>
        /\ an.cycle = 1 + an.received
        /\ an.received <= an.fired
        /\ an.received + (IF an.pending THEN 1 ELSE 0) <= an.fired
        /\ an.pc \in {"detect", "send", "wait"}
        /\ EndedCycles = IF an.pc = "wait" THEN an.cycle ELSE an.cycle - 1
        /\ Len(an.detected) = IF an.pc = "detect" THEN an.cycle - 1 ELSE an.cycle
        /\ \A c \in 1..an.cycle : Cardinality(SentIn(c)) <= 1
        /\ \A c \in 1..Len(an.detected) : ~an.detected[c] => SentIn(c) = {}
        /\ \A c \in 1..EndedCycles :
              /\ an.ended[c] = "detection failed" <=> ~an.detected[c]
              /\ an.detected[c] => Cardinality(SentIn(c)) = 1
              /\ \A i \in SentIn(c) :
                    an.ended[c] = "sent" <=>
                       (~an.sent[i].outcome.err /\ an.sent[i].outcome.status = 200)
        /\ (an.pc = "wait" /\ an.pending) => ENABLED AgentReceiveTick

\* three cycles: detection failed in the first, the backend answered 500 in
\* the second, and the third, begun on the second tick, was sent
C38_Witness ==
    /\ an.pc = "wait"
    /\ an.cycle = 3
    /\ an.received = 2
    /\ an.ended = <<"detection failed", "send failed", "sent">>
    /\ Len(an.sent) = 2
    /\ an.sent[1].cycle = 2 /\ an.sent[1].outcome.status = 500
    /\ an.sent[2].cycle = 3 /\ an.sent[2].outcome.status = 200

====
